---- MODULE Spec2Model ----
(***************************************************************************)
(* Session / token-refresh lifecycle of the Prestellation backend:         *)
(* the JWT codec and refresh orchestrator of jiraAuthService, the          *)
(* authenticateToken middleware and the OAuth callback of authController.  *)
(* Further: the response cache of JiraApiService / CacheService and the   *)
(* paged issue search of JiraDataService.                                  *)
(* Time is Date.now() in milliseconds, counted from the start of the run.  *)
(***************************************************************************)
EXTENDS Integers, Sequences, FiniteSets, TLC

\* ------------------------------------------------------------------ bounds
MaxTicks == 2
\* how often the clock advances while requests are served concurrently
MaxShortTicks == 2
\* the most issues a Jira search matches
MaxTotal == 3
\* the most POSTs one searchIssues call is followed through
MaxPages == 4

\* ---------------------------------------------------------------- settings
\* const fiveMinutes = 5 * 60 * 1000
fiveMinutes == 5 * 60 * 1000
\* this.tokenExpiration = process.env.TOKEN_EXPIRATION || '24h', in seconds
tokenExpiration == 24 * 60 * 60
\* maxAge: 24 * 60 * 60 * 1000 of the auth_token cookie
cookieMaxAge == 24 * 60 * 60 * 1000
\* this.jwtSecret
jwtSecret == "prestellation-jwt-secret"
\* expires_in of the mock token responses, in seconds
mockExpiresIn == 3600

\* ------------------------------------------------------------- environment
\* amounts by which the clock may advance between two steps
TickSteps == {fiveMinutes \div 2, 55 * 60 * 1000, 24 * 60 * 60 * 1000}
\* request slots: every handler invocation in progress occupies one
Slots == {1, 2}
\* the slots used when requests are served one at a time
Requests == {1}
NodeEnvs == {"development", "production"}

\* a JavaScript value that is absent
undefined == <<"undefined", 0>>
\* vendor tokens and codes are strings: a prefix and a suffix
AuthCodes == {<<"code", 1>>, <<"mock_auth_code_", 0>>}
\* values of the error query parameter of a callback
CallbackErrors == {<<"access_denied", 0>>, <<"denied&error=none", 0>>}
\* values of process.env.TOKEN_EXPIRATION: unset, or set to no timespan
TokenExpirationEnvs == {undefined, <<"a day", 0>>}
\* lifetimes (seconds) the vendor may report in a token response
VendorExpiresIn == {120, 3600}
\* profiles the vendor's /myself endpoint may return
VendorProfiles ==
  { [emailAddress |-> <<"ada@example.com", 0>>, displayName |-> <<"Ada", 0>>,
     accountId |-> <<"u", 1>>, avatarUrl |-> <<"avatar", 1>>],
    [emailAddress |-> <<"bob@example.com", 0>>, displayName |-> <<"Bob", 0>>,
     accountId |-> <<"u", 2>>, avatarUrl |-> undefined] }

\* what the vendor's token endpoint may answer to a refresh_token grant
VendorRefreshResponses ==
  { [ok |-> FALSE] }
  \cup { [ok |-> TRUE, access_token |-> <<"AT", 2>>, refresh_token |-> r, expires_in |-> e] :
           r \in {<<"RT", 2>>, undefined}, e \in VendorExpiresIn }
\* what it may answer to an authorization_code grant
VendorCodeResponses ==
  { [ok |-> FALSE] }
  \cup { [ok |-> TRUE, access_token |-> <<"AT", 1>>, refresh_token |-> <<"RT", 1>>,
          expires_in |-> e] : e \in VendorExpiresIn }
VendorUserResponses ==
  { [ok |-> FALSE] } \cup { [ok |-> TRUE, data |-> p] : p \in VendorProfiles }

\* ------------------------------------------------------------ JS helpers
\* String.prototype.startsWith on a prefix/suffix string
startsWith(s, prefix) == s[1] = prefix
\* a || b
JsOr(a, b) == IF a = undefined THEN b ELSE a
\* object.key: undefined when the object has no such property
JsGet(object, key) == IF key \in DOMAIN object THEN object[key] ELSE undefined
\* the outcome of a call that may throw
Thrown(error) == [threw |-> TRUE, error |-> error]
Returned(value) == [threw |-> FALSE, value |-> value]
\* an exception came out of the call whose outcome this is
Threw(outcome) == "threw" \in DOMAIN outcome /\ outcome.threw

\* -------------------------------------------------------------- cookies
\* The value of the auth_token cookie as the browser holds or sends it.
NoCookie == [kind |-> "none"]
Garbage == [kind |-> "garbage"]
IsJwt(token) == token.kind = "jwt"

\* What a client holding cookie c may send as auth_token: the cookie itself,
\* a string that is no JWT, its JWT with an edited payload (a later exp, or
\* another account) under the old signature, or its JWT signed with a key of
\* the client's own.
Sendable(c) ==
  {c, Garbage}
  \cup (IF c.kind = "jwt"
        THEN {[c EXCEPT !.payload.exp = @ + 3600],
              [c EXCEPT !.payload.user.accountId = <<"u", 0>>],
              [c EXCEPT !.sig = [key |-> "attacker-secret", over |-> c.payload]]}
        ELSE {})

\* ---------------------------------------------------------- Token Codec
\* HMAC of a payload under a key: equal only for the same key and payload
hmac(secret, payload) == [key |-> secret, over |-> payload]

\* JSON.stringify followed by JSON.parse of an object whose properties are
\* texts, but for the numeric ones named: undefined properties are left out
JsonObject(object, numeric) ==
  [k \in {f \in DOMAIN object : f \in numeric \/ object[f] # undefined} |-> object[k]]

\* the claims of a token as they are encoded into it
jwtClaims(payload, expiresIn, now) ==
  [user |-> JsonObject(payload.user, {}),
   oauth |-> JsonObject(payload.oauth, {"expires_at"}),
   iat |-> now \div 1000, exp |-> (now \div 1000) + expiresIn]

\* jwt.sign(payload, secret, {expiresIn}) adds iat and exp in whole seconds
jwtSign(payload, secret, expiresIn, now) ==
  [kind |-> "jwt",
   payload |-> jwtClaims(payload, expiresIn, now),
   sig |-> hmac(secret, jwtClaims(payload, expiresIn, now))]

\* jwt.sign throws when its expiresIn option is no timespan, which is the
\* case when TOKEN_EXPIRATION is set to such a text
jwtSignThrows(expirationEnv) == expirationEnv # undefined

\* generateToken adding expires_in as if it were milliseconds
generateToken_seconds(userData, oauthTokens, now) ==
  jwtSign([user |-> userData,
           oauth |-> [access_token |-> oauthTokens.access_token,
                      refresh_token |-> oauthTokens.refresh_token,
                      expires_at |-> now + oauthTokens.expires_in]],
          jwtSecret, tokenExpiration, now)

\* generateToken storing the access token in the place of the refresh token
generateToken_mixup(userData, oauthTokens, now) ==
  jwtSign([user |-> userData,
           oauth |-> [access_token |-> oauthTokens.access_token,
                      refresh_token |-> oauthTokens.access_token,
                      expires_at |-> now + (oauthTokens.expires_in * 1000)]],
          jwtSecret, tokenExpiration, now)

generateToken(userData, oauthTokens, now) ==
  jwtSign([user |-> userData,
           oauth |-> [access_token |-> oauthTokens.access_token,
                      refresh_token |-> oauthTokens.refresh_token,
                      expires_at |-> now + (oauthTokens.expires_in * 1000)]],
          jwtSecret, tokenExpiration, now)

\* verifyToken without the check of exp (jwt.verify with ignoreExpiration)
verifyToken_ignoreExpiration(token, now) ==
  IF ~IsJwt(token) THEN [valid |-> FALSE, error |-> "jwt malformed"]
  ELSE IF token.sig # hmac(jwtSecret, token.payload) THEN [valid |-> FALSE, error |-> "invalid signature"]
  ELSE [valid |-> TRUE, decoded |-> token.payload]

\* jwt.verify(token, secret): throws for a missing or malformed token, for a
\* signature that is not the secret's over the payload, and when the clock in
\* seconds has reached exp; otherwise returns the payload
jwtVerify(token, secret, now) ==
  IF token = NoCookie THEN Thrown("jwt must be provided")
  ELSE IF ~IsJwt(token) THEN Thrown("jwt malformed")
  ELSE IF token.sig # hmac(secret, token.payload) THEN Thrown("invalid signature")
  ELSE IF (now \div 1000) >= token.payload.exp THEN Thrown("jwt expired")
  ELSE Returned(token.payload)

\* verifyToken reading the payload without checking the signature (jwt.decode
\* and a test of exp)
verifyToken_decodeOnly(token, now) ==
  IF ~IsJwt(token) THEN [valid |-> FALSE, error |-> "jwt malformed"]
  ELSE IF (now \div 1000) >= token.payload.exp THEN [valid |-> FALSE, error |-> "jwt expired"]
  ELSE [valid |-> TRUE, decoded |-> token.payload]

\* verifyToken refusing tokens issued 55 minutes ago or earlier (jwt.verify
\* with maxAge: '55m')
verifyToken_maxAge(token, now) ==
  LET outcome == jwtVerify(token, jwtSecret, now) IN
  IF outcome.threw THEN [valid |-> FALSE, error |-> outcome.error]
  ELSE IF (now \div 1000) >= outcome.value.iat + (55 * 60)
       THEN [valid |-> FALSE, error |-> "maxAge exceeded"]
       ELSE [valid |-> TRUE, decoded |-> outcome.value]

\* verifyToken without its try/catch: what jwt.verify throws comes out
verifyToken_noCatch(token, now) ==
  LET outcome == jwtVerify(token, jwtSecret, now) IN
  IF outcome.threw THEN outcome
  ELSE [valid |-> TRUE, decoded |-> outcome.value]

\* verifyToken: jwt.verify inside try/catch
verifyToken(token, now) ==
  LET outcome == jwtVerify(token, jwtSecret, now) IN
  IF outcome.threw THEN [valid |-> FALSE, error |-> outcome.error]
  ELSE [valid |-> TRUE, decoded |-> outcome.value]

\* needsRefresh with the boundary instant included
needsRefresh_inclusive(expiresAt, now) == now >= (expiresAt - fiveMinutes)

\* needsRefresh with the comparison turned round
needsRefresh_reversed(expiresAt, now) == now < (expiresAt - fiveMinutes)

\* needsRefresh with the skew added instead of subtracted
needsRefresh_late(expiresAt, now) == now > (expiresAt + fiveMinutes)

needsRefresh(expiresAt, now) == now > (expiresAt - fiveMinutes)

\* ----------------------------------------------------- Vendor OAuth Client
MockTokens(now) ==
  [success |-> TRUE,
   access_token |-> <<"mock_access_token_", now>>,
   refresh_token |-> <<"mock_refresh_token_", now>>,
   expires_in |-> mockExpiresIn]

\* TRUE when the call goes to the vendor's token endpoint
refreshUsesVendor(refreshToken, env) ==
  /\ refreshToken # undefined
  /\ ~(startsWith(refreshToken, "mock_refresh_token_") /\ env # "production")

\* refreshToken.startsWith of an undefined refresh token throws inside the try
\* block and is caught like a failure of the vendor call
refreshAccessToken(refreshToken, env, resp, now) ==
  IF refreshToken = undefined
  THEN [success |-> FALSE, message |-> "Failed to refresh token"]
  ELSE IF ~refreshUsesVendor(refreshToken, env) THEN MockTokens(now)
  ELSE IF resp.ok
       THEN [success |-> TRUE, access_token |-> resp.access_token,
             refresh_token |-> resp.refresh_token, expires_in |-> resp.expires_in]
       ELSE [success |-> FALSE, message |-> "Failed to refresh token"]

\* the mock shortcut of exchangeCodeForToken taken in every environment
exchangeUsesVendor_anyEnv(code, env) == ~startsWith(code, "mock_auth_code_")

exchangeUsesVendor(code, env) ==
  ~(startsWith(code, "mock_auth_code_") /\ env # "production")

exchangeCodeForToken(code, env, resp, now) ==
  IF ~exchangeUsesVendor(code, env) THEN MockTokens(now)
  ELSE IF resp.ok
       THEN [success |-> TRUE, access_token |-> resp.access_token,
             refresh_token |-> resp.refresh_token, expires_in |-> resp.expires_in]
       ELSE [success |-> FALSE, message |-> "Failed to exchange code for token"]

userInfoUsesVendor(accessToken, env) ==
  ~(startsWith(accessToken, "mock_access_token_") /\ env # "production")

getUserInfo(accessToken, env, resp) ==
  IF ~userInfoUsesVendor(accessToken, env)
  THEN [success |-> TRUE,
        user |-> [username |-> <<"demo@example.com", 0>>, displayName |-> <<"Demo User", 0>>,
                  accountId |-> <<"mock-account-id", 0>>, avatarUrl |-> <<"default-avatar", 0>>]]
  ELSE IF resp.ok
       THEN [success |-> TRUE,
             user |-> [username |-> resp.data.emailAddress, displayName |-> resp.data.displayName,
                       accountId |-> resp.data.accountId, avatarUrl |-> resp.data.avatarUrl]]
       ELSE [success |-> FALSE, message |-> "Failed to get user information"]

\* ------------------------------------------- Session Refresh Orchestrator
\* refreshSessionToken reading the payload (jwt.decode) and refreshing before
\* the token is verified
refreshSessionTokenStart_decodeFirst(token, now) ==
  IF IsJwt(token) /\ needsRefresh(token.payload.oauth.expires_at, now)
  THEN [state |-> "await", decoded |-> token.payload]
  ELSE LET v == verifyToken(token, now) IN
       IF ~v.valid
       THEN [state |-> "return",
             result |-> [success |-> FALSE, message |-> "Invalid token"]]
       ELSE [state |-> "return",
             result |-> [success |-> TRUE, token |-> token, refreshed |-> FALSE]]

\* refreshSessionToken up to its await: either it returns, or it has called
\* refreshAccessToken with the decoded refresh token and waits for the answer
refreshSessionTokenStart(token, now) ==
  LET v == verifyToken(token, now) IN
  IF Threw(v)
  THEN [state |-> "return",
        result |-> [success |-> FALSE, message |-> "Token refresh failed"]]
  ELSE IF ~v.valid
  THEN [state |-> "return",
        result |-> [success |-> FALSE, message |-> "Invalid token"]]
  ELSE IF "oauth" \notin DOMAIN v.decoded
  \* decoded.oauth.expires_at throws a TypeError, which the catch turns into
  THEN [state |-> "return",
        result |-> [success |-> FALSE, message |-> "Token refresh failed"]]
  ELSE IF needsRefresh(v.decoded.oauth.expires_at, now)
       THEN [state |-> "await", decoded |-> v.decoded]
       ELSE [state |-> "return",
             result |-> [success |-> TRUE, token |-> token, refreshed |-> FALSE]]

\* refreshSessionToken taking the refresh token of the response as it is
refreshSessionTokenResume_noCarry(decoded, refreshResult, now) ==
  IF ~refreshResult.success
  THEN [success |-> FALSE, message |-> "Failed to refresh OAuth token"]
  ELSE [success |-> TRUE,
        token |-> generateToken(decoded.user,
                    [access_token |-> refreshResult.access_token,
                     refresh_token |-> refreshResult.refresh_token,
                     expires_in |-> refreshResult.expires_in], now),
        refreshed |-> TRUE]

\* refreshSessionToken issuing the new credential for an identity it looked up
\* again instead of the one it decoded
refreshSessionTokenResume_refetch(decoded, refreshResult, now) ==
  IF ~refreshResult.success
  THEN [success |-> FALSE, message |-> "Failed to refresh OAuth token"]
  ELSE [success |-> TRUE,
        token |-> generateToken([decoded.user EXCEPT !.displayName = <<"Jira User", 0>>],
                    [access_token |-> refreshResult.access_token,
                     refresh_token |-> JsOr(refreshResult.refresh_token,
                                            JsGet(decoded.oauth, "refresh_token")),
                     expires_in |-> refreshResult.expires_in], now),
        refreshed |-> TRUE]

\* refreshSessionToken issuing the new credential with the session expiry of
\* the one it replaces (an absolute lifetime counted from login)
refreshSessionTokenResume_keepExp(decoded, refreshResult, now) ==
  IF ~refreshResult.success
  THEN [success |-> FALSE, message |-> "Failed to refresh OAuth token"]
  ELSE LET issued == generateToken(decoded.user,
                       [access_token |-> refreshResult.access_token,
                        refresh_token |-> JsOr(refreshResult.refresh_token,
                                               JsGet(decoded.oauth, "refresh_token")),
                        expires_in |-> refreshResult.expires_in], now)
           claims == [issued.payload EXCEPT !.exp = decoded.exp]
       IN [success |-> TRUE,
           token |-> [kind |-> "jwt", payload |-> claims, sig |-> hmac(jwtSecret, claims)],
           refreshed |-> TRUE]

\* refreshSessionToken after the await on refreshAccessToken
refreshSessionTokenResume(decoded, refreshResult, now) ==
  IF ~refreshResult.success
  THEN [success |-> FALSE, message |-> "Failed to refresh OAuth token"]
  ELSE [success |-> TRUE,
        token |-> generateToken(decoded.user,
                    [access_token |-> refreshResult.access_token,
                     refresh_token |-> JsOr(refreshResult.refresh_token,
                                            JsGet(decoded.oauth, "refresh_token")),
                     expires_in |-> refreshResult.expires_in], now),
        refreshed |-> TRUE]

\* ------------------------------------------------------------ responses
\* What a handler did to res / req / next, in program order.
cookieOptions(env) ==
  [httpOnly |-> TRUE, secure |-> (env = "production"),
   maxAge |-> cookieMaxAge, sameSite |-> "lax"]
SetCookie(value, env) ==
  [op |-> "cookie", name |-> "auth_token", value |-> value, options |-> cookieOptions(env)]
ClearCookie == [op |-> "clearCookie", name |-> "auth_token"]
Status(code, message) == [op |-> "status", code |-> code, message |-> message]
CallNext == [op |-> "next"]
\* encodeURIComponent: the text survives as one query parameter value
encodeURIComponent(text) == [text |-> text, encoded |-> TRUE]
\* text put into a URL as it is
Raw(text) == [text |-> text, encoded |-> FALSE]
\* no error parameter at all
NoError == Raw(undefined)
\* res.redirect(`${frontendUrl}${path}?error=${error}`), or without a query
Redirect(path, error) == [op |-> "redirect", path |-> path, error |-> error]
\* the value of the error parameter as a URL parser of the browser reads it:
\* a text that was not encoded ends at its first '&'
searchParamsGet(error) ==
  IF error = NoError THEN undefined
  ELSE IF error.encoded THEN error.text
  ELSE IF error.text = <<"denied&error=none", 0>> THEN <<"denied", 0>>
  ELSE error.text

\* a call of the Vendor OAuth Client; vendor: the call reaches the vendor
Call(fn, arg, vendor) == [fn |-> fn, arg |-> arg, vendor |-> vendor]

\* request context: only the attached properties are in its domain
NoContext == <<>>

\* ------------------------------------------------------- Request Gate
\* authenticateToken rejecting without res.clearCookie
authenticateTokenFinish_noClear(refreshResult, env, now) ==
  IF ~refreshResult.success
  THEN [events |-> <<Status(401, "Invalid or expired token")>>,
        ctx |-> NoContext]
  ELSE LET written == IF refreshResult.refreshed
                      THEN <<SetCookie(refreshResult.token, env)>> ELSE <<>>
           verificationResult == verifyToken(refreshResult.token, now)
       IN IF verificationResult.valid
          THEN [events |-> written \o <<CallNext>>,
                ctx |-> [user |-> verificationResult.decoded.user,
                         oauth |-> verificationResult.decoded.oauth]]
          ELSE [events |-> written \o <<ClearCookie,
                                        Status(401, "Invalid token after refresh")>>,
                ctx |-> NoContext]

\* authenticateToken writing the cookie whether or not the token was refreshed
authenticateTokenFinish_alwaysCookie(refreshResult, env, now) ==
  IF ~refreshResult.success
  THEN [events |-> <<ClearCookie, Status(401, "Invalid or expired token")>>,
        ctx |-> NoContext]
  ELSE LET written == <<SetCookie(refreshResult.token, env)>>
           verificationResult == verifyToken(refreshResult.token, now)
       IN IF verificationResult.valid
          THEN [events |-> written \o <<CallNext>>,
                ctx |-> [user |-> verificationResult.decoded.user,
                         oauth |-> verificationResult.decoded.oauth]]
          ELSE [events |-> written \o <<ClearCookie,
                                        Status(401, "Invalid token after refresh")>>,
                ctx |-> NoContext]

\* authenticateToken from the result of refreshSessionToken onwards
authenticateTokenFinish(refreshResult, env, now) ==
  IF ~refreshResult.success
  THEN [events |-> <<ClearCookie, Status(401, "Invalid or expired token")>>,
        ctx |-> NoContext]
  ELSE LET written == IF refreshResult.refreshed
                      THEN <<SetCookie(refreshResult.token, env)>> ELSE <<>>
           verificationResult == verifyToken(refreshResult.token, now)
       IN IF verificationResult.valid
          THEN [events |-> written \o <<CallNext>>,
                ctx |-> [user |-> verificationResult.decoded.user,
                         oauth |-> verificationResult.decoded.oauth]]
          ELSE [events |-> written \o <<ClearCookie,
                                        Status(401, "Invalid token after refresh")>>,
                ctx |-> NoContext]

\* optionalAuthentication answering 401 when refreshSessionToken fails
optionalAuthenticationFinish_reject(refreshResult, env, now) ==
  IF ~refreshResult.success
  THEN [events |-> <<ClearCookie, Status(401, "Invalid or expired token")>>,
        ctx |-> NoContext]
  ELSE LET written == IF refreshResult.refreshed
                      THEN <<SetCookie(refreshResult.token, env)>> ELSE <<>>
           verificationResult == verifyToken(refreshResult.token, now)
       IN [events |-> written \o <<CallNext>>,
           ctx |-> IF verificationResult.valid
                   THEN [user |-> verificationResult.decoded.user,
                         oauth |-> verificationResult.decoded.oauth]
                   ELSE NoContext]

\* optionalAuthentication from the result of refreshSessionToken onwards
optionalAuthenticationFinish(refreshResult, env, now) ==
  IF ~refreshResult.success
  THEN [events |-> <<ClearCookie, CallNext>>, ctx |-> NoContext]
  ELSE LET written == IF refreshResult.refreshed
                      THEN <<SetCookie(refreshResult.token, env)>> ELSE <<>>
           verificationResult == verifyToken(refreshResult.token, now)
       IN [events |-> written \o <<CallNext>>,
           ctx |-> IF verificationResult.valid
                   THEN [user |-> verificationResult.decoded.user,
                         oauth |-> verificationResult.decoded.oauth]
                   ELSE NoContext]

\* ------------------------------------------------------- GET /user
Json(code, body) == [op |-> "json", code |-> code, body |-> body]

\* getCurrentUser answering with everything the middleware attached
getCurrentUser_withOauth(ctx) ==
  IF "user" \in DOMAIN ctx
  THEN Json(200, [success |-> TRUE, user |-> ctx.user, oauth |-> ctx.oauth])
  ELSE Json(401, [success |-> FALSE, message |-> "Not authenticated"])

\* getCurrentUser, the handler behind authenticateToken on GET /user
getCurrentUser(ctx) ==
  IF "user" \in DOMAIN ctx
  THEN Json(200, [success |-> TRUE, user |-> ctx.user])
  ELSE Json(401, [success |-> FALSE, message |-> "Not authenticated"])

\* what the route answers once the middleware has ended: the handler runs
\* only if next() was called
Downstream(f) ==
  IF \E i \in DOMAIN f.events : f.events[i] = CallNext
  THEN <<getCurrentUser(f.ctx)>> ELSE <<>>

\* ----------------------------------------------------------------- state
VARIABLES
  now,      \* Date.now()
  ticks,    \* how often the clock has advanced
  nodeEnv,  \* process.env.NODE_ENV
  tokenExpirationEnv,  \* process.env.TOKEN_EXPIRATION
  jar,      \* the browser's auth_token cookie
  req,      \* per request slot: the handler invocation in progress
  cache     \* the memory-cache singleton: key -> [value, expire]
vars == <<now, ticks, nodeEnv, tokenExpirationEnv, jar, req, cache>>

Idle ==
  [pc |-> "idle", handler |-> "none", cookie |-> NoCookie, query |-> <<>>,
   local |-> <<>>, result |-> <<>>, events |-> <<>>, ctx |-> NoContext,
   calls |-> <<>>, answers |-> <<>>, answeredAt |-> <<>>, reply |-> <<>>,
   startAt |-> 0, endAt |-> 0]

Init ==
  /\ now = 0
  /\ ticks = 0
  /\ nodeEnv \in NodeEnvs
  /\ tokenExpirationEnv \in TokenExpirationEnvs
  /\ jar = NoCookie
  /\ req = [r \in Slots |-> Idle]
  /\ cache = <<>>

\* time passes
Tick ==
  /\ ticks < MaxTicks
  /\ \E d \in TickSteps : now' = now + d
  /\ ticks' = ticks + 1
  /\ UNCHANGED <<nodeEnv, tokenExpirationEnv, jar, req, cache>>

\* authenticateToken joining the refresh another request has in flight for the
\* same credential instead of calling the vendor itself
authenticateTokenStart_coalesce(r) ==
  /\ req[r].pc = "idle"
  /\ \E token \in Sendable(jar) :
     LET base == [Idle EXCEPT !.handler = "authenticateToken", !.cookie = token,
                              !.startAt = now, !.endAt = now]
         inFlight == \E o \in Slots \ {r} :
                       req[o].pc = "refreshing" /\ req[o].cookie = token
     IN IF token = NoCookie
        THEN req' = [req EXCEPT ![r] =
               [base EXCEPT !.pc = "done",
                            !.events = <<Status(401, "Authentication required")>>]]
        ELSE LET s == refreshSessionTokenStart(token, now) IN
             IF s.state = "await"
             THEN req' = [req EXCEPT ![r] =
                    [base EXCEPT !.pc = "refreshing", !.local = s.decoded,
                                 !.calls = IF inFlight THEN <<>>
                                           ELSE <<Call("refreshAccessToken",
                                                  JsGet(s.decoded.oauth, "refresh_token"),
                                                  refreshUsesVendor(JsGet(s.decoded.oauth,
                                                                          "refresh_token"),
                                                                    nodeEnv))>>]]
             ELSE LET f == authenticateTokenFinish(s.result, nodeEnv, now) IN
                  req' = [req EXCEPT ![r] =
                    [base EXCEPT !.pc = "done", !.result = s.result,
                                 !.events = f.events, !.ctx = f.ctx,
                                 !.reply = Downstream(f)]]
  /\ UNCHANGED <<now, ticks, nodeEnv, tokenExpirationEnv, jar, cache>>

\* authenticateToken from its entry to its return or to the await on the vendor
authenticateTokenStart(r) ==
  /\ req[r].pc = "idle"
  /\ \E token \in Sendable(jar) :
     LET base == [Idle EXCEPT !.handler = "authenticateToken", !.cookie = token,
                              !.startAt = now, !.endAt = now]
     IN IF token = NoCookie
        THEN req' = [req EXCEPT ![r] =
               [base EXCEPT !.pc = "done",
                            !.events = <<Status(401, "Authentication required")>>]]
        ELSE LET s == refreshSessionTokenStart(token, now) IN
             IF s.state = "await"
             THEN req' = [req EXCEPT ![r] =
                    [base EXCEPT !.pc = "refreshing", !.local = s.decoded,
                                 !.calls = <<Call("refreshAccessToken",
                                                  JsGet(s.decoded.oauth, "refresh_token"),
                                                  refreshUsesVendor(JsGet(s.decoded.oauth,
                                                                          "refresh_token"),
                                                                    nodeEnv))>>]]
             ELSE LET f == authenticateTokenFinish(s.result, nodeEnv, now) IN
                  req' = [req EXCEPT ![r] =
                    [base EXCEPT !.pc = "done", !.result = s.result,
                                 !.events = f.events, !.ctx = f.ctx,
                                 !.reply = Downstream(f)]]
  /\ UNCHANGED <<now, ticks, nodeEnv, tokenExpirationEnv, jar, cache>>

\* the answer of refreshAccessToken arrives and authenticateToken runs to its end
authenticateTokenResume(r) ==
  /\ req[r].pc = "refreshing"
  /\ req[r].handler = "authenticateToken"
  /\ \E resp \in VendorRefreshResponses :
       LET refreshResult == refreshAccessToken(JsGet(req[r].local.oauth, "refresh_token"),
                                               nodeEnv, resp, now)
           \* generateToken throwing is caught by refreshSessionToken
           result == IF refreshResult.success /\ jwtSignThrows(tokenExpirationEnv)
                     THEN [success |-> FALSE, message |-> "Token refresh failed"]
                     ELSE refreshSessionTokenResume(req[r].local, refreshResult, now)
           f == authenticateTokenFinish(result, nodeEnv, now)
       IN req' = [req EXCEPT ![r].pc = "done", ![r].result = result,
                             ![r].answers = Append(@, refreshResult),
                             ![r].answeredAt = Append(@, now),
                             ![r].events = f.events, ![r].ctx = f.ctx,
                             ![r].reply = Downstream(f),
                             ![r].endAt = now]
  /\ UNCHANGED <<now, ticks, nodeEnv, tokenExpirationEnv, jar, cache>>

\* optionalAuthentication from its entry to its next() or to the await on the
\* vendor
optionalAuthenticationStart(r) ==
  /\ req[r].pc = "idle"
  /\ \E token \in Sendable(jar) :
     LET base == [Idle EXCEPT !.handler = "optionalAuthentication", !.cookie = token,
                              !.startAt = now, !.endAt = now]
     IN IF token = NoCookie
        THEN req' = [req EXCEPT ![r] =
               [base EXCEPT !.pc = "done", !.events = <<CallNext>>]]
        ELSE LET s == refreshSessionTokenStart(token, now) IN
             IF s.state = "await"
             THEN req' = [req EXCEPT ![r] =
                    [base EXCEPT !.pc = "refreshing", !.local = s.decoded,
                                 !.calls = <<Call("refreshAccessToken",
                                                  JsGet(s.decoded.oauth, "refresh_token"),
                                                  refreshUsesVendor(JsGet(s.decoded.oauth,
                                                                          "refresh_token"),
                                                                    nodeEnv))>>]]
             ELSE LET f == optionalAuthenticationFinish(s.result, nodeEnv, now) IN
                  req' = [req EXCEPT ![r] =
                    [base EXCEPT !.pc = "done", !.result = s.result,
                                 !.events = f.events, !.ctx = f.ctx]]
  /\ UNCHANGED <<now, ticks, nodeEnv, tokenExpirationEnv, jar, cache>>

\* the answer of refreshAccessToken arrives and optionalAuthentication runs to
\* its end
optionalAuthenticationResume(r) ==
  /\ req[r].pc = "refreshing"
  /\ req[r].handler = "optionalAuthentication"
  /\ \E resp \in VendorRefreshResponses :
       LET refreshResult == refreshAccessToken(JsGet(req[r].local.oauth, "refresh_token"),
                                               nodeEnv, resp, now)
           result == IF refreshResult.success /\ jwtSignThrows(tokenExpirationEnv)
                     THEN [success |-> FALSE, message |-> "Token refresh failed"]
                     ELSE refreshSessionTokenResume(req[r].local, refreshResult, now)
           f == optionalAuthenticationFinish(result, nodeEnv, now)
       IN req' = [req EXCEPT ![r].pc = "done", ![r].result = result,
                             ![r].answers = Append(@, refreshResult),
                             ![r].answeredAt = Append(@, now),
                             ![r].events = f.events, ![r].ctx = f.ctx,
                             ![r].endAt = now]
  /\ UNCHANGED <<now, ticks, nodeEnv, tokenExpirationEnv, jar, cache>>

\* handleCallback looking at the code before it looks at the error
handleCallbackStart_codeFirst(r) ==
  /\ req[r].pc = "idle"
  /\ \E error \in CallbackErrors \cup {undefined}, code \in AuthCodes \cup {undefined} :
       LET base == [Idle EXCEPT !.handler = "handleCallback", !.cookie = jar,
                                !.query = [code |-> code, error |-> error],
                                !.startAt = now, !.endAt = now]
       IN IF code # undefined
          THEN req' = [req EXCEPT ![r] =
                 [base EXCEPT !.pc = "exchanging",
                              !.calls = <<Call("exchangeCodeForToken", code,
                                               exchangeUsesVendor(code, nodeEnv))>>]]
          ELSE IF error # undefined
          THEN req' = [req EXCEPT ![r] =
                 [base EXCEPT !.pc = "done",
                              !.events = <<Redirect("/login", encodeURIComponent(error))>>]]
          ELSE req' = [req EXCEPT ![r] =
                 [base EXCEPT !.pc = "done",
                              !.events = <<Redirect("/login",
                                             Raw(<<"No authorization code received", 0>>))>>]]
  /\ UNCHANGED <<now, ticks, nodeEnv, tokenExpirationEnv, jar, cache>>

\* handleCallback from its entry to its first return or await
handleCallbackStart(r) ==
  /\ req[r].pc = "idle"
  /\ \E error \in CallbackErrors \cup {undefined}, code \in AuthCodes \cup {undefined} :
       LET base == [Idle EXCEPT !.handler = "handleCallback", !.cookie = jar,
                                !.query = [code |-> code, error |-> error],
                                !.startAt = now, !.endAt = now]
       IN IF error # undefined
          THEN req' = [req EXCEPT ![r] =
                 [base EXCEPT !.pc = "done",
                              !.events = <<Redirect("/login", encodeURIComponent(error))>>]]
          ELSE IF code = undefined
          THEN req' = [req EXCEPT ![r] =
                 [base EXCEPT !.pc = "done",
                              !.events = <<Redirect("/login",
                                             Raw(<<"No authorization code received", 0>>))>>]]
          ELSE req' = [req EXCEPT ![r] =
                 [base EXCEPT !.pc = "exchanging",
                              !.calls = <<Call("exchangeCodeForToken", code,
                                               exchangeUsesVendor(code, nodeEnv))>>]]
  /\ UNCHANGED <<now, ticks, nodeEnv, tokenExpirationEnv, jar, cache>>

\* the answer of exchangeCodeForToken arrives
handleCallbackExchanged(r) ==
  /\ req[r].pc = "exchanging"
  /\ \E resp \in VendorCodeResponses :
       LET tokenResult == exchangeCodeForToken(req[r].query.code, nodeEnv, resp, now) IN
       IF ~tokenResult.success
       THEN req' = [req EXCEPT ![r].pc = "done", ![r].endAt = now,
                               ![r].answers = Append(@, tokenResult),
                               ![r].answeredAt = Append(@, now),
                               ![r].events = <<Redirect("/login",
                                                 encodeURIComponent(<<tokenResult.message, 0>>))>>]
       ELSE req' = [req EXCEPT ![r].pc = "fetchingUser", ![r].local = tokenResult,
                               ![r].answers = Append(@, tokenResult),
                               ![r].answeredAt = Append(@, now),
                               ![r].calls = Append(@, Call("getUserInfo", tokenResult.access_token,
                                   userInfoUsesVendor(tokenResult.access_token, nodeEnv)))]
  /\ UNCHANGED <<now, ticks, nodeEnv, tokenExpirationEnv, jar, cache>>

\* handleCallback issuing the session and its cookie before it looks at the
\* outcome of getUserInfo
handleCallbackUser_cookieFirst(r) ==
  /\ req[r].pc = "fetchingUser"
  /\ \E resp \in VendorUserResponses :
       LET tokenResult == req[r].local
           userResult == getUserInfo(tokenResult.access_token, nodeEnv, resp)
           sessionToken == generateToken(IF userResult.success THEN userResult.user
                                         ELSE [username |-> undefined],
                              [access_token |-> tokenResult.access_token,
                               refresh_token |-> tokenResult.refresh_token,
                               expires_in |-> tokenResult.expires_in], now)
       IN req' = [req EXCEPT ![r].pc = "done", ![r].endAt = now,
                             ![r].answers = Append(@, userResult),
                             ![r].answeredAt = Append(@, now),
                             ![r].result = [token |-> sessionToken],
                             ![r].events =
                               <<SetCookie(sessionToken, nodeEnv)>> \o
                               (IF userResult.success THEN <<Redirect("/", NoError)>>
                                ELSE <<Redirect("/login",
                                         encodeURIComponent(<<userResult.message, 0>>))>>)]
  /\ UNCHANGED <<now, ticks, nodeEnv, tokenExpirationEnv, jar, cache>>

\* the answer of getUserInfo arrives and handleCallback runs to its end
handleCallbackUser(r) ==
  /\ req[r].pc = "fetchingUser"
  /\ \E resp \in VendorUserResponses :
       LET tokenResult == req[r].local
           userResult == getUserInfo(tokenResult.access_token, nodeEnv, resp)
       IN IF ~userResult.success
          THEN req' = [req EXCEPT ![r].pc = "done", ![r].endAt = now,
                                  ![r].answers = Append(@, userResult),
                                  ![r].answeredAt = Append(@, now),
                                  ![r].events = <<Redirect("/login",
                                                    encodeURIComponent(<<userResult.message, 0>>))>>]
          ELSE IF jwtSignThrows(tokenExpirationEnv)
          \* generateToken throws; the catch block reads frontendUrl, a const
          \* of the try block, and throws a ReferenceError in turn: the
          \* handler's promise rejects and nothing is sent
          THEN req' = [req EXCEPT ![r].pc = "done", ![r].endAt = now,
                                  ![r].answers = Append(@, userResult),
                                  ![r].answeredAt = Append(@, now),
                                  ![r].result = [rejected |-> "ReferenceError: frontendUrl is not defined"]]
          ELSE LET sessionToken == generateToken(userResult.user,
                                     [access_token |-> tokenResult.access_token,
                                      refresh_token |-> tokenResult.refresh_token,
                                      expires_in |-> tokenResult.expires_in], now)
               IN req' = [req EXCEPT ![r].pc = "done", ![r].endAt = now,
                                     ![r].answers = Append(@, userResult),
                                     ![r].answeredAt = Append(@, now),
                                     ![r].result = [token |-> sessionToken],
                                     ![r].events = <<SetCookie(sessionToken, nodeEnv),
                                                     Redirect("/", NoError)>>]
  /\ UNCHANGED <<now, ticks, nodeEnv, tokenExpirationEnv, jar, cache>>

\* logout clearing the cookie only of a request that carries a session
logout_ifSession(r) ==
  /\ req[r].pc = "idle"
  /\ \E token \in Sendable(jar) :
       req' = [req EXCEPT ![r] =
                 [Idle EXCEPT !.pc = "done", !.handler = "logout", !.cookie = token,
                              !.events = (IF verifyToken(token, now).valid
                                          THEN <<ClearCookie>> ELSE <<>>)
                                         \o <<Redirect("/login", NoError)>>,
                              !.startAt = now, !.endAt = now]]
  /\ UNCHANGED <<now, ticks, nodeEnv, tokenExpirationEnv, jar, cache>>

\* logout: res.clearCookie, then the redirect to the login page
logout(r) ==
  /\ req[r].pc = "idle"
  /\ \E token \in Sendable(jar) :
       req' = [req EXCEPT ![r] =
                 [Idle EXCEPT !.pc = "done", !.handler = "logout", !.cookie = token,
                              !.events = <<ClearCookie, Redirect("/login", NoError)>>,
                              !.startAt = now, !.endAt = now]]
  /\ UNCHANGED <<now, ticks, nodeEnv, tokenExpirationEnv, jar, cache>>

\* the browser applies the Set-Cookie headers of a response, in order
RECURSIVE ApplyCookies(_, _)
ApplyCookies(events, cookie) ==
  IF events = <<>> THEN cookie
  ELSE LET e == Head(events) IN
       ApplyCookies(Tail(events),
                    IF e.op = "cookie" THEN e.value
                    ELSE IF e.op = "clearCookie" THEN NoCookie
                    ELSE cookie)

Deliver(r) ==
  /\ req[r].pc = "done"
  /\ jar' = ApplyCookies(req[r].events, jar)
  /\ req' = [req EXCEPT ![r] = Idle]
  /\ UNCHANGED <<now, ticks, nodeEnv, tokenExpirationEnv, cache>>

Next ==
  \/ Tick
  \/ \E r \in Requests : handleCallbackStart(r)
  \/ \E r \in Requests : handleCallbackExchanged(r)
  \/ \E r \in Requests : handleCallbackUser(r)
  \/ \E r \in Requests : authenticateTokenStart(r)
  \/ \E r \in Requests : authenticateTokenResume(r)
  \/ \E r \in Requests : optionalAuthenticationStart(r)
  \/ \E r \in Requests : optionalAuthenticationResume(r)
  \/ \E r \in Requests : logout(r)
  \/ \E r \in Requests : Deliver(r)

Spec == Init /\ [][Next]_vars

\* =================================================================
\* Requests of one browser served concurrently
\* =================================================================
\* the browser holds the session of a login at time 0 through the vendor, in
\* production, whose access token is within the skew window from the start
InitConcurrent ==
  /\ now = 0
  /\ ticks = 0
  /\ nodeEnv = "production"
  /\ tokenExpirationEnv = undefined
  /\ \E resp \in {v \in VendorUserResponses : v.ok},
        tokens \in {v \in VendorCodeResponses : v.ok /\ v.expires_in * 1000 < fiveMinutes} :
       jar = generateToken(getUserInfo(tokens.access_token, "production", resp).user,
                           [access_token |-> tokens.access_token,
                            refresh_token |-> tokens.refresh_token,
                            expires_in |-> tokens.expires_in], 0)
  /\ req = [r \in Slots |-> Idle]
  /\ cache = <<>>

\* time passes while requests are in progress: half the skew window at a time
ShortTick ==
  /\ ticks < MaxShortTicks
  /\ now' = now + (fiveMinutes \div 2)
  /\ ticks' = ticks + 1
  /\ UNCHANGED <<nodeEnv, tokenExpirationEnv, jar, req, cache>>

NextConcurrent ==
  \/ ShortTick
  \/ \E r \in Slots : authenticateTokenStart(r)
  \/ \E r \in Slots : authenticateTokenResume(r)
  \/ \E r \in Slots : Deliver(r)

SpecConcurrent == InitConcurrent /\ [][NextConcurrent]_vars

\* =================================================================
\* A credential string that was copied and is sent again later
\* =================================================================
\* the browser holds the session of a login at time 0 through the vendor
InitReplay ==
  /\ now = 0
  /\ ticks = 0
  /\ nodeEnv = "production"
  /\ tokenExpirationEnv = undefined
  /\ \E resp \in {v \in VendorUserResponses : v.ok},
        tokens \in {v \in VendorCodeResponses : v.ok} :
       jar = generateToken(getUserInfo(tokens.access_token, "production", resp).user,
                           [access_token |-> tokens.access_token,
                            refresh_token |-> tokens.refresh_token,
                            expires_in |-> tokens.expires_in], 0)
  /\ req = [r \in Slots |-> Idle]
  /\ cache = <<>>

\* somebody copies the cookie string the browser holds; slot 2 keeps the copy
Keep ==
  /\ req[2].pc = "idle"
  /\ IsJwt(jar)
  /\ \A r \in Requests : req[r].pc = "idle"
  /\ req' = [req EXCEPT ![2] = [Idle EXCEPT !.pc = "kept", !.handler = "copy",
                                             !.cookie = jar, !.startAt = now]]
  /\ UNCHANGED <<now, ticks, nodeEnv, tokenExpirationEnv, jar, cache>>

\* the browser applies the response of a logout, or of a request that
\* replaced the copied credential by a refreshed one, and the copy is then put
\* back as the auth_token cookie; slot 2 notes which response came before
Replay(r) ==
  /\ req[r].pc = "done"
  /\ req[2].pc = "kept"
  /\ jar = req[2].cookie
  /\ \/ req[r].handler = "logout"
     \/ /\ req[r].handler = "authenticateToken"
        /\ req[r].cookie = jar
        /\ Len(req[r].events) > 0
        /\ req[r].events[1].op = "cookie"
  /\ jar' = req[2].cookie
  /\ req' = [req EXCEPT ![r] = Idle,
                         ![2] = [@ EXCEPT !.pc = "replayed",
                                          !.local = [after |-> req[r].handler,
                                                     held |-> ApplyCookies(req[r].events, jar)],
                                          !.endAt = now]]
  /\ UNCHANGED <<now, ticks, nodeEnv, tokenExpirationEnv, cache>>

NextReplay ==
  \/ Tick
  \/ Keep
  \/ \E r \in Requests : Replay(r)
  \/ \E r \in Requests : logout(r)
  \/ \E r \in Requests : authenticateTokenStart(r)
  \/ \E r \in Requests : authenticateTokenResume(r)
  \/ \E r \in Requests : Deliver(r)

SpecReplay == InitReplay /\ [][NextReplay]_vars

\* =================================================================
\* The token codec and the orchestrator called on their own
\* =================================================================
\* identities getUserInfo may return
Identities ==
  { getUserInfo(<<"AT", 1>>, "production", resp).user :
      resp \in {v \in VendorUserResponses : v.ok} }
\* vendor token tuples handed to generateToken; a token response need not
\* carry a refresh token
TokenTuples ==
  { [access_token |-> <<"AT", 1>>, refresh_token |-> rt, expires_in |-> e] :
      rt \in {<<"RT", 1>>, undefined}, e \in VendorExpiresIn }

\* a session token of the earlier generateToken(userData), which signed the
\* identity alone under the same secret: no oauth property
LegacyToken(userData, issuedAt) ==
  [kind |-> "jwt",
   payload |-> [username |-> userData.username, displayName |-> userData.displayName,
                accountId |-> userData.accountId,
                iat |-> issuedAt \div 1000, exp |-> (issuedAt \div 1000) + tokenExpiration],
   sig |-> hmac(jwtSecret,
                [username |-> userData.username, displayName |-> userData.displayName,
                 accountId |-> userData.accountId,
                 iat |-> issuedAt \div 1000, exp |-> (issuedAt \div 1000) + tokenExpiration])]

\* what a caller may pass as token: what a client may send, nothing at all, or
\* a token of the earlier format for the same user
Presentable(c) ==
  Sendable(c) \cup {NoCookie}
  \cup (IF c.kind = "jwt" THEN {LegacyToken(c.payload.user, c.payload.iat * 1000)} ELSE {})

\* slot 2 keeps the last call of generateToken: its arguments and its outcome
Issuance(userData, oauthTokens, outcome, at) ==
  [Idle EXCEPT !.pc = "issued", !.handler = "generateToken",
               !.query = [userData |-> userData, oauthTokens |-> oauthTokens],
               !.result = outcome, !.startAt = at, !.endAt = at]

\* the server runs, a browser holds a session issued at time 0 (under a
\* TOKEN_EXPIRATION that was usable then)
InitCodec ==
  /\ now = 0
  /\ ticks = 0
  /\ nodeEnv \in NodeEnvs
  /\ tokenExpirationEnv \in TokenExpirationEnvs
  /\ \E userData \in Identities, oauthTokens \in TokenTuples :
       /\ jar = generateToken(userData, oauthTokens, 0)
       /\ req = [r \in Slots |->
                  IF r = 2
                  THEN Issuance(userData, oauthTokens,
                                [token |-> generateToken(userData, oauthTokens, 0)], 0)
                  ELSE Idle]
  /\ cache = <<>>

\* generateToken(userData, oauthTokens); the browser takes the new token
generateTokenCall ==
  /\ \A r \in Requests : req[r].pc = "idle"
  /\ \E userData \in Identities, oauthTokens \in TokenTuples :
       IF jwtSignThrows(tokenExpirationEnv)
       THEN /\ req' = [req EXCEPT ![2] =
                      Issuance(userData, oauthTokens,
                               Thrown("\"expiresIn\" should be a number of seconds or string representing a timespan"),
                               now)]
            /\ jar' = jar
       ELSE /\ req' = [req EXCEPT ![2] =
                      Issuance(userData, oauthTokens,
                               [token |-> generateToken(userData, oauthTokens, now)], now)]
            /\ jar' = generateToken(userData, oauthTokens, now)
  /\ UNCHANGED <<now, ticks, nodeEnv, tokenExpirationEnv, cache>>

\* verifyToken(token)
verifyTokenCall(r) ==
  /\ req[r].pc = "idle"
  /\ \E token \in Presentable(jar) :
       req' = [req EXCEPT ![r] =
                 [Idle EXCEPT !.pc = "done", !.handler = "verifyToken", !.cookie = token,
                              !.result = verifyToken(token, now),
                              !.startAt = now, !.endAt = now]]
  /\ UNCHANGED <<now, ticks, nodeEnv, tokenExpirationEnv, jar, cache>>

\* refreshSessionToken(token) up to its return or its await
refreshSessionTokenCall(r) ==
  /\ req[r].pc = "idle"
  /\ \E token \in Presentable(jar) :
       LET base == [Idle EXCEPT !.handler = "refreshSessionToken", !.cookie = token,
                                !.startAt = now, !.endAt = now]
           s == refreshSessionTokenStart(token, now)
       IN IF s.state = "await"
          THEN req' = [req EXCEPT ![r] =
                 [base EXCEPT !.pc = "refreshing", !.local = s.decoded,
                              !.calls = <<Call("refreshAccessToken",
                                               JsGet(s.decoded.oauth, "refresh_token"),
                                               refreshUsesVendor(JsGet(s.decoded.oauth,
                                                                       "refresh_token"),
                                                                 nodeEnv))>>]]
          ELSE req' = [req EXCEPT ![r] = [base EXCEPT !.pc = "done", !.result = s.result]]
  /\ UNCHANGED <<now, ticks, nodeEnv, tokenExpirationEnv, jar, cache>>

\* the answer of refreshAccessToken arrives and refreshSessionToken returns
refreshSessionTokenAnswer(r) ==
  /\ req[r].pc = "refreshing"
  /\ req[r].handler = "refreshSessionToken"
  /\ \E resp \in VendorRefreshResponses :
       LET refreshResult == refreshAccessToken(JsGet(req[r].local.oauth, "refresh_token"),
                                               nodeEnv, resp, now)
           result == IF refreshResult.success /\ jwtSignThrows(tokenExpirationEnv)
                     THEN [success |-> FALSE, message |-> "Token refresh failed"]
                     ELSE refreshSessionTokenResume(req[r].local, refreshResult, now)
       IN req' = [req EXCEPT ![r].pc = "done", ![r].result = result,
                             ![r].answers = Append(@, refreshResult),
                             ![r].answeredAt = Append(@, now),
                             ![r].endAt = now]
  /\ UNCHANGED <<now, ticks, nodeEnv, tokenExpirationEnv, jar, cache>>

NextCodec ==
  \/ Tick
  \/ generateTokenCall
  \/ \E r \in Requests : verifyTokenCall(r)
  \/ \E r \in Requests : refreshSessionTokenCall(r)
  \/ \E r \in Requests : refreshSessionTokenAnswer(r)
  \/ \E r \in Requests : authenticateTokenStart(r)
  \/ \E r \in Requests : authenticateTokenResume(r)
  \/ \E r \in Requests : Deliver(r)

SpecCodec == InitCodec /\ [][NextCodec]_vars

\* =================================================================
\* Jira API access through the response cache
\* (JiraApiService, CacheService, the memory-cache singleton)
\* =================================================================
\* Text is a sequence of pieces; a piece is never split by a search.
includes(text, pattern) ==
  \E i \in 0..(Len(text) - Len(pattern)) :
    SubSeq(text, i + 1, i + Len(pattern)) = pattern

\* JIRA_CACHE_TTL unset
defaultCacheTTL == 300000
\* no caller of get passes a cacheTTL
CacheTTLs == {defaultCacheTTL}
Endpoints == {<<"/project/", "TEST1">>, <<"/project/", "TEST2">>}
\* query parameters as a list of name/value pairs; params = {} by default
ParamSets == {<<>>}
AccessTokens == {<<"access_token_", 1>>, <<"access_token_", 2>>}
\* '' (falsy), a project key, the common prefix, a numeral
Patterns == {<<>>, <<"TEST1">>, <<"jira_">>, <<"1">>}

RECURSIVE jsonMembers(_)
jsonMembers(pairs) ==
  IF pairs = <<>>
  THEN <<>>
  ELSE <<"\"", pairs[1][1], "\":\"", pairs[1][2], "\"">>
       \o (IF Len(pairs) = 1 THEN <<>> ELSE <<",">>)
       \o jsonMembers(Tail(pairs))
JSONstringify(params) ==
  IF params = <<>> THEN <<"{}">> ELSE <<"{">> \o jsonMembers(params) \o <<"}">>

\* `jira_${endpoint}_${JSON.stringify(params)}`
cacheKey(endpoint, params) ==
  <<"jira_">> \o endpoint \o <<"_">> \o JSONstringify(params)

\* response bodies: what Jira shows the owner of the token, or nothing
JiraData(endpoint, accessToken) ==
  [kind |-> "object", endpoint |-> endpoint, visibleTo |-> accessToken]
EmptyBody == [kind |-> "empty"]
null == [kind |-> "null"]
truthy(data) == data.kind = "object"
\* axios resolves for 2xx and rejects for the rest (after its retries)
JiraResponses(endpoint, accessToken) ==
  {[status |-> 200, data |-> JiraData(endpoint, accessToken)],
   [status |-> 204, data |-> EmptyBody],
   [status |-> 401, data |-> EmptyBody]}
getAuthHeaders(accessToken) == [Authorization |-> <<"Bearer ", accessToken>>]

\* ------------------------------------------------------ memory-cache
\* the store is a function from the keys present to [value, expire]
cacheLive(c, key, t) == key \in DOMAIN c /\ c[key].expire >= t
cacheGet(c, key, t) == IF cacheLive(c, key, t) THEN c[key].value ELSE null
cacheDel(c, key) == [k \in DOMAIN c \ {key} |-> c[k]]
\* get drops the entry it finds expired
cacheAfterGet(c, key, t) ==
  IF key \in DOMAIN c /\ ~cacheLive(c, key, t) THEN cacheDel(c, key) ELSE c
\* put taking its time in seconds
cachePut_seconds(c, key, value, time, t) ==
  [k \in DOMAIN c \cup {key} |->
     IF k = key THEN [value |-> value, expire |-> t + time \div 1000] ELSE c[k]]
cachePut(c, key, value, time, t) ==
  [k \in DOMAIN c \cup {key} |->
     IF k = key THEN [value |-> value, expire |-> t + time] ELSE c[k]]
cacheClear == <<>>
\* exportJson() returns the JSON text of the store, a string
RECURSIVE exportEntries(_, _)
exportEntries(c, keys) ==
  IF keys = {}
  THEN <<>>
  ELSE LET k == CHOOSE x \in keys : TRUE
       IN <<"\"">> \o k \o <<"\":{\"value\":", c[k].value.kind,
                              ",\"expire\":", ToString(c[k].expire), "}">>
          \o (IF keys = {k} THEN <<>> ELSE <<",">>)
          \o exportEntries(c, keys \ {k})
exportJson(c) == <<"{">> \o exportEntries(c, DOMAIN c) \o <<"}">>
\* Object.keys of a string: the numerals of its positions
ObjectKeys(text) == {<<ToString(i)>> : i \in 0..(Len(text) - 1)}
RECURSIVE cacheDelAll(_, _)
cacheDelAll(c, keys) ==
  IF keys = {}
  THEN c
  ELSE LET k == CHOOSE x \in keys : TRUE
       IN cacheDelAll(cacheDel(c, k), keys \ {k})

\* CacheService.getKeys()
getKeys(c) == ObjectKeys(exportJson(c))
\* the keys clearCache and clearByPattern pass to del
matchingKeys(c, pattern) == {key \in getKeys(c) : includes(key, pattern)}

\* --------------------------------------------- invocations in progress
\* a completed GET whose entry a later clear may have touched
MarkCleared(q) ==
  IF q.pc = "done" /\ q.handler = "get"
  THEN [q EXCEPT !.local = [q.local EXCEPT !.cleared = TRUE]]
  ELSE q

\* JiraApiService.get up to its await
getStart(r) ==
  /\ req[r].pc = "idle"
  /\ \E endpoint \in Endpoints, params \in ParamSets,
        accessToken \in AccessTokens, useCache \in BOOLEAN,
        cacheTTL \in CacheTTLs :
       LET key == cacheKey(endpoint, params)
           cachedData == cacheGet(cache, key, now)
           call == [Idle EXCEPT !.handler = "get",
                                !.query = [endpoint |-> endpoint, params |-> params,
                                           accessToken |-> accessToken,
                                           useCache |-> useCache,
                                           cacheTTL |-> cacheTTL],
                                !.local = [cacheKey |-> key, cleared |-> FALSE],
                                !.endAt = now]
       IN IF useCache /\ truthy(cachedData)
          THEN /\ req' = [req EXCEPT ![r] =
                     [call EXCEPT !.pc = "done", !.result = Returned(cachedData)]]
               /\ cache' = cache
          ELSE /\ req' = [req EXCEPT ![r] =
                     [call EXCEPT !.pc = "called",
                                  !.calls = <<[fn |-> "api.get", endpoint |-> endpoint,
                                               params |-> params,
                                               headers |-> getAuthHeaders(accessToken)]>>]]
               /\ cache' = IF useCache THEN cacheAfterGet(cache, key, now) ELSE cache
  /\ UNCHANGED <<now, ticks, nodeEnv, tokenExpirationEnv, jar>>

\* the answer of the Jira API arrives and get runs to its end
getResume(r) ==
  /\ req[r].pc = "called"
  /\ req[r].handler = "get"
  /\ \E response \in JiraResponses(req[r].query.endpoint, req[r].query.accessToken) :
       IF response.status >= 300
       THEN /\ req' = [req EXCEPT ![r].pc = "done", ![r].endAt = now,
                                  ![r].answers = <<response>>,
                                  ![r].result = Thrown(response.status)]
            /\ cache' = cache
       ELSE /\ req' = [req EXCEPT ![r].pc = "done", ![r].endAt = now,
                                  ![r].answers = <<response>>,
                                  ![r].result = Returned(response.data)]
            /\ cache' = IF req[r].query.useCache /\ truthy(response.data)
                        THEN cachePut(cache, req[r].local.cacheKey, response.data,
                                      req[r].query.cacheTTL, now)
                        ELSE cache
  /\ UNCHANGED <<now, ticks, nodeEnv, tokenExpirationEnv, jar>>

\* what a clearing call leaves in its slot
Cleared(handler, pattern, value) ==
  [Idle EXCEPT !.pc = "done", !.handler = handler,
               !.query = [pattern |-> pattern],
               !.result = Returned(value)]

\* JiraApiService.clearCache(keyPattern)
clearCache(r) ==
  /\ req[r].pc = "idle"
  /\ \E keyPattern \in Patterns :
       LET after == IF keyPattern = <<>>
                    THEN cache
                    ELSE cacheDelAll(cache, matchingKeys(cache, keyPattern))
       IN /\ cache' = after
          /\ req' = [x \in Slots |->
                      IF x = r
                      THEN Cleared("clearCache", keyPattern, 0)
                      ELSE MarkCleared(req[x])]
  /\ UNCHANGED <<now, ticks, nodeEnv, tokenExpirationEnv, jar>>

\* CacheService.clearByPattern(pattern)
clearByPattern(r) ==
  /\ req[r].pc = "idle"
  /\ \E pattern \in Patterns :
       LET after == IF pattern = <<>>
                    THEN cache
                    ELSE cacheDelAll(cache, matchingKeys(cache, pattern))
           count == IF pattern = <<>>
                    THEN 0
                    ELSE Cardinality(matchingKeys(cache, pattern))
       IN /\ cache' = after
          /\ req' = [x \in Slots |->
                      IF x = r
                      THEN Cleared("clearByPattern", pattern, count)
                      ELSE MarkCleared(req[x])]
  /\ UNCHANGED <<now, ticks, nodeEnv, tokenExpirationEnv, jar>>

\* JiraApiService.clearAllCache()
clearAllCache(r) ==
  /\ req[r].pc = "idle"
  /\ cache' = cacheClear
  /\ req' = [x \in Slots |->
              IF x = r
              THEN Cleared("clearAllCache", <<>>, 0)
              ELSE MarkCleared(req[x])]
  /\ UNCHANGED <<now, ticks, nodeEnv, tokenExpirationEnv, jar>>

\* the timer memory-cache set at put fires and drops the entry
cacheTimeout ==
  /\ \E key \in DOMAIN cache :
       /\ cache[key].expire <= now
       /\ cache' = cacheDel(cache, key)
  /\ UNCHANGED <<now, ticks, nodeEnv, tokenExpirationEnv, jar, req>>

InitCache ==
  /\ now = 0
  /\ ticks = 0
  /\ nodeEnv = "production"
  /\ tokenExpirationEnv = undefined
  /\ jar = NoCookie
  /\ req = [r \in Slots |-> Idle]
  /\ cache = <<>>

NextCache ==
  \/ ShortTick
  \/ \E r \in Slots : getStart(r)
  \/ \E r \in Slots : getResume(r)
  \/ \E r \in Requests : clearCache(r)
  \/ \E r \in Requests : clearByPattern(r)
  \/ \E r \in Requests : clearAllCache(r)
  \/ cacheTimeout
  \/ \E r \in Slots : Deliver(r)

SpecCache == InitCache /\ [][NextCache]_vars

\* =================================================================
\* Paged issue search (JiraDataService.searchIssues)
\* =================================================================
\* req.query.startAt and req.query.maxResults as the search route passes them on
StartAts == {0, 1}
PageSizes == {1, 2}
\* the issues Jira lists on a page: those numbered startAt+1 .. startAt+maxResults
\* of the total matching
PageIssues(startAt, maxResults, total) ==
  [i \in 1..(IF startAt + maxResults <= total
             THEN maxResults
             ELSE IF total > startAt THEN total - startAt ELSE 0) |-> startAt + i]
\* the body of POST /search
searchBody(startAt, maxResults) ==
  [fn |-> "post", endpoint |-> "/search", startAt |-> startAt, maxResults |-> maxResults]
\* what Jira may answer: startAt echoed, maxResults at most the requested,
\* any total; or a failure
SearchResponses(body) ==
  {[ok |-> TRUE, startAt |-> body.startAt, maxResults |-> k, total |-> t,
    issues |-> PageIssues(body.startAt, k, t)] :
      k \in 0..body.maxResults, t \in 0..MaxTotal}
  \cup {[ok |-> FALSE, startAt |-> 0, maxResults |-> 0, total |-> 0, issues |-> <<>>]}
\* searchResults.issues = [...searchResults.issues, ...nextResults.issues],
\* from the innermost call outwards
RECURSIVE combineIssues(_)
combineIssues(pages) ==
  IF pages = <<>> THEN <<>> ELSE pages[1].issues \o combineIssues(Tail(pages))

\* searchIssues(jql, accessToken, useCache, startAt, maxResults) to its first await
searchIssuesStart(r) ==
  /\ req[r].pc = "idle"
  /\ \E startAt \in StartAts, maxResults \in PageSizes :
       req' = [req EXCEPT ![r] =
         [Idle EXCEPT !.pc = "posting", !.handler = "searchIssues",
                      !.query = [startAt |-> startAt, maxResults |-> maxResults],
                      !.calls = <<searchBody(startAt, maxResults)>>]]
  /\ UNCHANGED <<now, ticks, nodeEnv, tokenExpirationEnv, jar, cache>>

\* the answer of a POST arrives: the innermost call recurses for the next
\* page, or returns and every outer call combines and returns, or throws
searchIssuesPage(r) ==
  /\ req[r].pc = "posting"
  /\ req[r].handler = "searchIssues"
  /\ \E searchResults \in SearchResponses(req[r].calls[Len(req[r].calls)]) :
       IF ~searchResults.ok
       THEN req' = [req EXCEPT ![r].pc = "done",
                               ![r].answers = Append(@, searchResults),
                               ![r].result = Thrown("Failed to search Jira issues")]
       ELSE IF searchResults.startAt + searchResults.maxResults < searchResults.total
       THEN /\ Len(req[r].calls) < MaxPages
            /\ req' = [req EXCEPT
                 ![r].answers = Append(@, searchResults),
                 ![r].calls = Append(@, searchBody(searchResults.startAt
                                                    + searchResults.maxResults,
                                                    req[r].query.maxResults))]
       ELSE LET pages == Append(req[r].answers, searchResults)
            IN req' = [req EXCEPT
                 ![r].pc = "done",
                 ![r].answers = pages,
                 ![r].result = Returned([pages[1] EXCEPT
                                           !.issues = combineIssues(pages)])]
  /\ UNCHANGED <<now, ticks, nodeEnv, tokenExpirationEnv, jar, cache>>

InitSearch ==
  /\ now = 0
  /\ ticks = 0
  /\ nodeEnv = "production"
  /\ tokenExpirationEnv = undefined
  /\ jar = NoCookie
  /\ req = [r \in Slots |-> Idle]
  /\ cache = <<>>

NextSearch ==
  \/ \E r \in Requests : searchIssuesStart(r)
  \/ \E r \in Requests : searchIssuesPage(r)

SpecSearch == InitSearch /\ [][NextSearch]_vars

\* =================================================================
\* Vocabulary of the properties
\* =================================================================
\* a request slot holds an invocation of authenticateToken (running or ended)
InGate(r) == req[r].pc # "idle" /\ req[r].handler = "authenticateToken"
GateDone(r) == req[r].pc = "done" /\ req[r].handler = "authenticateToken"

\* the handler performed an operation of the given kind
Did(r, op) == \E i \in DOMAIN req[r].events : req[r].events[i].op = op
Responded(r, code) ==
  \E i \in DOMAIN req[r].events :
     req[r].events[i].op = "status" /\ req[r].events[i].code = code

\* signed by the server over exactly this payload
Authentic(c) ==
  c.kind = "jwt" /\ c.sig.key = "prestellation-jwt-secret" /\ c.sig.over = c.payload
\* the 24h session lifetime, counted from issuance, has not elapsed at time t
SessionLive(c, t) == (t \div 1000) < c.payload.iat + 86400
Verifies(c, t) == Authentic(c) /\ SessionLive(c, t)

\* the vendor-token expiry embedded in a credential
ExpiresAt(c) == c.payload.oauth.expires_at
\* the orchestrator called refreshAccessToken on behalf of this request
AttemptedRefresh(r) == req[r].calls # <<>>
\* the orchestrator returned the inbound credential as it was, refreshed = false
ReturnedUnchanged(r) ==
  /\ req[r].result.success
  /\ req[r].result.refreshed = FALSE
  /\ req[r].result.token = req[r].cookie

\* -----------------------------------------------------------------
\* C1: a gated request with no auth_token cookie, a malformed or wrongly signed
\* cookie, or a cookie whose session lifetime has elapsed is answered 401,
\* next() is not called and neither req.user nor req.oauth is attached.
C1_GateRejects ==
  \A r \in Requests :
    (GateDone(r) /\ (req[r].cookie = NoCookie
                     \/ ~Verifies(req[r].cookie, req[r].startAt)))
    => /\ Responded(r, 401)
       /\ ~Did(r, "next")
       /\ DOMAIN req[r].ctx = {}

\* a correctly signed credential presented after its session lifetime was rejected
C1_Witness ==
  \E r \in Requests :
    /\ GateDone(r)
    /\ Authentic(req[r].cookie)
    /\ ~SessionLive(req[r].cookie, req[r].startAt)
    /\ Responded(r, 401)

\* -----------------------------------------------------------------
\* C2: whenever authenticateToken calls next(), the request context holds the
\* resolved identity and the current vendor access token, but neither the
\* vendor refresh token nor the raw credential string.
C2_ContextWithoutRefreshToken ==
  \A r \in Requests :
    (GateDone(r) /\ Did(r, "next"))
    => /\ DOMAIN req[r].ctx = {"user", "oauth"}
       /\ req[r].ctx.user = req[r].result.token.payload.user
       /\ req[r].ctx.oauth.access_token = req[r].result.token.payload.oauth.access_token
       /\ "refresh_token" \notin DOMAIN req[r].ctx.oauth
       /\ \A k \in DOMAIN req[r].ctx :
            req[r].ctx[k] # req[r].cookie /\ req[r].ctx[k] # req[r].result.token

\* -----------------------------------------------------------------
\* C3 as stated: for a credential that verifies, a vendor refresh is attempted
\* exactly when now >= expires_at - 5 min; when now < expires_at - 5 min the
\* call returns success, refreshed = false and the inbound credential.
C3_RefreshFromBoundaryOn ==
  \A r \in Requests :
    (InGate(r) /\ Verifies(req[r].cookie, req[r].startAt))
    => /\ AttemptedRefresh(r)
            <=> (req[r].startAt >= ExpiresAt(req[r].cookie) - 300000)
       /\ (req[r].startAt < ExpiresAt(req[r].cookie) - 300000) => ReturnedUnchanged(r)

\* C3 amended: for a credential that verifies, a vendor refresh is attempted
\* exactly when now > expires_at - 5 min (the boundary instant excluded); when
\* now <= expires_at - 5 min the call returns success, refreshed = false and
\* the inbound credential unchanged.
C3_RefreshAfterBoundary ==
  \A r \in Requests :
    (InGate(r) /\ Verifies(req[r].cookie, req[r].startAt))
    => /\ AttemptedRefresh(r)
            <=> (req[r].startAt > ExpiresAt(req[r].cookie) - 300000)
       /\ (req[r].startAt <= ExpiresAt(req[r].cookie) - 300000) => ReturnedUnchanged(r)

\* a verifying credential was checked exactly 5 minutes before expires_at
C3_Witness ==
  \E r \in Requests :
    /\ GateDone(r)
    /\ Verifies(req[r].cookie, req[r].startAt)
    /\ req[r].startAt = ExpiresAt(req[r].cookie) - 300000
    /\ ReturnedUnchanged(r)

\* the refresh token embedded in a credential
RefreshTokenOf(c) == JsGet(c.payload.oauth, "refresh_token")
\* the credential verified and its vendor token was due for refresh
DueForRefresh(r) ==
  /\ Verifies(req[r].cookie, req[r].startAt)
  /\ req[r].startAt > ExpiresAt(req[r].cookie) - 300000
\* refreshAccessToken answered, and answered with success
RefreshSucceeded(r) == req[r].answers # <<>> /\ req[r].answers[1].success
RefreshFailed(r) == req[r].answers # <<>> /\ ~req[r].answers[1].success

\* -----------------------------------------------------------------
\* C4 as stated: for a verifying credential whose expires_at lies within the
\* 5-minute skew window, refreshAccessToken is called exactly once and, when
\* that call succeeds, the result is refreshed = true with a new credential
\* whose expires_at is strictly greater than the original's.
C4_RefreshExtendsExpiry ==
  \A r \in Requests :
    (InGate(r) /\ DueForRefresh(r))
    => /\ Len(req[r].calls) = 1
       /\ req[r].calls[1].fn = "refreshAccessToken"
       /\ (GateDone(r) /\ RefreshSucceeded(r))
          => /\ req[r].result.success
             /\ req[r].result.refreshed = TRUE
             /\ ExpiresAt(req[r].result.token) > ExpiresAt(req[r].cookie)

\* C4 amended: for a verifying credential whose expires_at lies within the
\* 5-minute skew window, refreshAccessToken is called exactly once and, when
\* that call succeeds, the result is refreshed = true with a new credential;
\* the new expires_at is strictly greater than the original's provided the
\* vendor reported an expires_in of at least 300 seconds (the skew).
C4_RefreshExtendsExpiryIfLifetimeCoversSkew ==
  \A r \in Requests :
    (InGate(r) /\ DueForRefresh(r))
    => /\ Len(req[r].calls) = 1
       /\ req[r].calls[1].fn = "refreshAccessToken"
       /\ (GateDone(r) /\ RefreshSucceeded(r))
          => /\ req[r].result.success
             /\ req[r].result.refreshed = TRUE
             /\ (req[r].answers[1].expires_in >= 300)
                => ExpiresAt(req[r].result.token) > ExpiresAt(req[r].cookie)

\* a credential inside the skew window was refreshed by a real vendor answer
\* that arrived later than the request and carried a lifetime of an hour
C4_Witness ==
  \E r \in Requests :
    /\ GateDone(r) /\ DueForRefresh(r) /\ RefreshSucceeded(r)
    /\ req[r].calls[1].vendor
    /\ req[r].answers[1].expires_in = 3600
    /\ req[r].endAt > req[r].startAt
    /\ req[r].result.refreshed = TRUE
    /\ ExpiresAt(req[r].result.token) = req[r].endAt + 3600000

\* -----------------------------------------------------------------
\* C5: every orchestrator failure in a gated request (invalid credential or
\* failed vendor refresh) ends with the cookie cleared and a 401 without
\* next(); a failed refresh is not retried: at most one refresh call per request.
C5_FailureClearsAndRejects ==
  \A r \in Requests :
    InGate(r)
    => /\ Len(req[r].calls) <= 1
       /\ (GateDone(r) /\ req[r].cookie # NoCookie
             /\ (~Verifies(req[r].cookie, req[r].startAt) \/ RefreshFailed(r)))
          => /\ Did(r, "clearCookie")
             /\ ApplyCookies(req[r].events, req[r].cookie) = NoCookie
             /\ Responded(r, 401)
             /\ ~Did(r, "next")
             /\ Len(req[r].answers) = Len(req[r].calls)

\* the vendor refused a refresh and the request was rejected after that one call
C5_Witness ==
  \E r \in Requests :
    /\ GateDone(r) /\ RefreshFailed(r)
    /\ Len(req[r].calls) = 1
    /\ Did(r, "clearCookie") /\ Responded(r, 401)

\* -----------------------------------------------------------------
\* C6: a call made with a credential whose vendor token is still fresh never
\* calls refreshAccessToken, returns refreshed = false and leaves the cookie
\* as it was, so this holds for every call of a sequence with that credential.
C6_FreshNeverRefreshes ==
  \A r \in Requests :
    (InGate(r) /\ Verifies(req[r].cookie, req[r].startAt)
       /\ req[r].startAt < ExpiresAt(req[r].cookie) - 300000)
    => /\ req[r].calls = <<>>
       /\ GateDone(r)
       /\ req[r].result.success /\ req[r].result.refreshed = FALSE
       /\ ApplyCookies(req[r].events, req[r].cookie) = req[r].cookie

\* a fresh credential was used again some time after it had been issued
C6_Witness ==
  \E r \in Requests :
    /\ GateDone(r) /\ Verifies(req[r].cookie, req[r].startAt)
    /\ req[r].startAt < ExpiresAt(req[r].cookie) - 300000
    /\ req[r].startAt > req[r].cookie.payload.iat * 1000
    /\ req[r].result.refreshed = FALSE
    /\ jar = req[r].cookie

\* -----------------------------------------------------------------
\* C7: when the vendor's refresh response has no refresh token the reissued
\* credential carries the prior refresh token; when it has one, the new one.
C7_RefreshTokenCarryOver ==
  \A r \in Requests :
    (GateDone(r) /\ RefreshSucceeded(r))
    => /\ req[r].result.success
       /\ RefreshTokenOf(req[r].result.token) =
            IF req[r].answers[1].refresh_token = undefined
            THEN RefreshTokenOf(req[r].cookie)
            ELSE req[r].answers[1].refresh_token

\* a refresh response without a refresh token was turned into a credential
C7_Witness ==
  \E r \in Requests :
    /\ GateDone(r) /\ RefreshSucceeded(r)
    /\ req[r].answers[1].refresh_token = undefined
    /\ RefreshTokenOf(req[r].result.token) = RefreshTokenOf(req[r].cookie)

\* -----------------------------------------------------------------
\* C8: a successful gated request writes the auth_token cookie iff the
\* orchestrator reported refreshed = true; then the new credential is set
\* (httpOnly, sameSite=lax, 24h max-age) before next(); otherwise the
\* response touches no cookie.
C8_CookieWrittenIffRefreshed ==
  \A r \in Requests :
    (GateDone(r) /\ Did(r, "next"))
    => IF req[r].result.refreshed
       THEN /\ Len(req[r].events) = 2
            /\ req[r].events[1].op = "cookie"
            /\ req[r].events[1].name = "auth_token"
            /\ req[r].events[1].value = req[r].result.token
            /\ req[r].events[1].options.httpOnly = TRUE
            /\ req[r].events[1].options.sameSite = "lax"
            /\ req[r].events[1].options.maxAge = 86400000
            /\ req[r].events[2].op = "next"
       ELSE req[r].events = <<[op |-> "next"]>>

\* a refreshed credential was written to the cookie and next() was called
C8_Witness ==
  \E r \in Requests :
    /\ GateDone(r) /\ RefreshSucceeded(r)
    /\ Did(r, "cookie") /\ Did(r, "next")

\* -----------------------------------------------------------------
\* C9: no refresh call is made for a credential that fails verification: an
\* invalid, tampered or session-expired credential ends in failure at once.
C9_NoRefreshForInvalid ==
  \A r \in Requests :
    (InGate(r) /\ req[r].cookie # NoCookie
       /\ ~Verifies(req[r].cookie, req[r].startAt))
    => /\ req[r].calls = <<>>
       /\ GateDone(r)
       /\ ~req[r].result.success

\* a credential under a foreign signature, its vendor token due for refresh,
\* was rejected without a refresh call
C9_Witness ==
  \E r \in Requests :
    /\ GateDone(r)
    /\ IsJwt(req[r].cookie) /\ ~Authentic(req[r].cookie)
    /\ req[r].startAt > ExpiresAt(req[r].cookie) - 300000
    /\ req[r].calls = <<>>
    /\ ~req[r].result.success

\* -----------------------------------------------------------------
\* C10: whenever authenticateToken calls next(), the expires_at attached to
\* the request is later than the time of the call.
C10_AccessTokenFreshAtNext ==
  \A r \in Requests :
    (GateDone(r) /\ Did(r, "next"))
    => req[r].ctx.oauth.expires_at > req[r].endAt

\* next() was called with a token obtained by a refresh that took time
C10_Witness ==
  \E r \in Requests :
    /\ GateDone(r) /\ Did(r, "next") /\ RefreshSucceeded(r)
    /\ req[r].endAt > req[r].startAt
    /\ req[r].ctx.oauth.expires_at > req[r].endAt

\* -----------------------------------------------------------------
\* vocabulary of the callback
InCallback(r) == req[r].pc # "idle" /\ req[r].handler = "handleCallback"
CallbackDone(r) == req[r].pc = "done" /\ req[r].handler = "handleCallback"
\* a call of the Vendor OAuth Client has answered with a failure
SomeAnswerFailed(r) == \E i \in DOMAIN req[r].answers : ~req[r].answers[i].success
\* the response is one redirect to the login page with an error message
RedirectedToLoginWithError(r) ==
  /\ Len(req[r].events) = 1
  /\ req[r].events[1].op = "redirect"
  /\ req[r].events[1].path = "/login"
  /\ searchParamsGet(req[r].events[1].error) # undefined

\* C12: the callback writes the auth_token cookie only when the code exchange
\* and the identity fetch have both answered with success; after a failed
\* exchange getUserInfo is not called; and when either has failed the response
\* is a redirect to /login with an error message and without a cookie.
C12_CookieOnlyAfterBothSucceed ==
  \A r \in Slots : InCallback(r) =>
    /\ Did(r, "cookie") =>
         /\ Len(req[r].answers) = 2
         /\ req[r].answers[1].success /\ req[r].answers[2].success
         /\ req[r].calls[1].fn = "exchangeCodeForToken"
         /\ req[r].calls[2].fn = "getUserInfo"
    /\ (Len(req[r].answers) >= 1 /\ ~req[r].answers[1].success) =>
         /\ req[r].pc = "done"
         /\ Len(req[r].calls) = 1
    /\ (req[r].pc = "done" /\ SomeAnswerFailed(r)) =>
         /\ RedirectedToLoginWithError(r)
         /\ ~Did(r, "cookie")

\* a callback whose exchange succeeded and whose identity fetch failed
C12_Witness ==
  \E r \in Slots :
    /\ CallbackDone(r)
    /\ Len(req[r].answers) = 2
    /\ req[r].answers[1].success /\ ~req[r].answers[2].success
    /\ req[r].calls[2].vendor
    /\ RedirectedToLoginWithError(r)

Redirects(r) == Cardinality({i \in DOMAIN req[r].events : req[r].events[i].op = "redirect"})
\* the handler ended because an exception escaped it
Rejected(r) == "rejected" \in DOMAIN req[r].result

\* C14: every callback request that has ended has sent exactly one redirect:
\* to the app root when the session was issued, to /login with an error
\* message otherwise, and with the message 'Authentication failed' when an
\* exception was raised inside the handler.
C14_ExactlyOneRedirect ==
  \A r \in Slots : CallbackDone(r) =>
    /\ Redirects(r) = 1
    /\ LET e == req[r].events[Len(req[r].events)] IN
       /\ e.op = "redirect"
       /\ IF Did(r, "cookie")
          THEN e.path = "/" /\ e.error = NoError
          ELSE e.path = "/login" /\ searchParamsGet(e.error) # undefined
       /\ (Len(req[r].answers) = 2 /\ ~SomeAnswerFailed(r) /\ ~Did(r, "cookie")) =>
            searchParamsGet(e.error) = <<"Authentication failed", 0>>

\* -----------------------------------------------------------------
\* a credential as the callback issued it: signed by the server and carrying
\* the access token of a code exchange
IssuedAtLogin(c) ==
  /\ Authentic(c)
  /\ \/ c.payload.oauth.access_token = <<"AT", 1>>
     \/ c.payload.oauth.access_token = <<"mock_access_token_", c.payload.iat * 1000>>
\* the identity as JSON carries it: properties that are undefined are absent
AsJson(user) == [k \in {f \in DOMAIN user : user[f] # undefined} |-> user[k]]
\* the session the callback issued holds the identity getUserInfo returned
LoginKeepsIdentity ==
  \A r \in Slots : (CallbackDone(r) /\ Did(r, "cookie")) =>
    req[r].events[1].value.payload.user = AsJson(req[r].answers[2].user)
\* GET /user answered 200 with the identity of the cookie and nothing else
AnsweredWithIdentity(r) ==
  /\ Len(req[r].reply) = 1
  /\ req[r].reply[1].code = 200
  /\ DOMAIN req[r].reply[1].body = {"success", "user"}
  /\ req[r].reply[1].body.success = TRUE
  /\ req[r].reply[1].body.user = req[r].cookie.payload.user
  /\ DOMAIN req[r].reply[1].body.user \subseteq
       {"username", "displayName", "accountId", "avatarUrl"}

\* C15 as stated: after a callback whose exchange and identity fetch
\* succeeded, GET /user with the issued cookie, sent before the 24h session
\* lifetime has elapsed, is answered 200 with success = true and user equal
\* to the identity fetched at login, and with no vendor token in the body.
C15_UserAfterLogin ==
  /\ LoginKeepsIdentity
  /\ \A r \in Slots :
       (GateDone(r) /\ IssuedAtLogin(req[r].cookie)
          /\ SessionLive(req[r].cookie, req[r].startAt)) =>
         AnsweredWithIdentity(r)

\* C15 amended: the same, unless the vendor token of the cookie was due for
\* refresh and the refresh failed (the gate then answers 401).
C15_UserAfterLoginUnlessRefreshFails ==
  /\ LoginKeepsIdentity
  /\ \A r \in Slots :
       (GateDone(r) /\ IssuedAtLogin(req[r].cookie)
          /\ SessionLive(req[r].cookie, req[r].startAt)) =>
         IF RefreshFailed(r)
         THEN Responded(r, 401) /\ req[r].reply = <<>>
         ELSE AnsweredWithIdentity(r)

\* GET /user, some time after a login through the vendor, answered 200 after
\* a refresh that succeeded
C15_Witness ==
  \E r \in Slots :
    /\ GateDone(r)
    /\ IssuedAtLogin(req[r].cookie)
    /\ req[r].cookie.payload.oauth.access_token = <<"AT", 1>>
    /\ req[r].startAt > req[r].cookie.payload.iat * 1000
    /\ RefreshSucceeded(r)
    /\ AnsweredWithIdentity(r)

\* -----------------------------------------------------------------
OptionalDone(r) == req[r].pc = "done" /\ req[r].handler = "optionalAuthentication"
\* how often the middleware called next()
NextCalls(r) == Cardinality({i \in DOMAIN req[r].events : req[r].events[i] = CallNext})

\* C16: optionalAuthentication never rejects: whatever the cookie and whatever
\* the vendor answers, it ends with exactly one call of next() and sends no
\* status or redirect; and it attaches an identity only when the inbound
\* credential verified, the identity being the one of that credential.
C16_OptionalNeverRejects ==
  \A r \in Slots : OptionalDone(r) =>
    /\ NextCalls(r) = 1
    /\ req[r].events[Len(req[r].events)] = CallNext
    /\ ~Did(r, "status") /\ ~Did(r, "redirect") /\ ~Did(r, "json")
    /\ (req[r].ctx # NoContext) =>
         /\ Verifies(req[r].cookie, req[r].startAt)
         /\ req[r].ctx.user = req[r].cookie.payload.user

\* optionalAuthentication letting a request through, without an identity,
\* after the vendor refused the refresh
C16_Witness ==
  \E r \in Slots :
    /\ OptionalDone(r)
    /\ RefreshFailed(r)
    /\ req[r].calls[1].vendor
    /\ req[r].events = <<ClearCookie, CallNext>>
    /\ req[r].ctx = NoContext

\* -----------------------------------------------------------------
\* The vendor issues a token no later than the instant at which its answer
\* arrives; answeredAt[1] is that instant for the token answer of a request.
\* the true expiry of the vendor token a request obtained, at the latest
TrueExpiry(r) == req[r].answeredAt[1] + (req[r].answers[1].expires_in * 1000)

\* C20: in every credential issued at login or at refresh, expires_at equals
\* the instant at which the vendor issued the access token plus the
\* expires_in it reported, and so is never later than the true expiry.
C20_ExpiresAtIsTrueExpiry ==
  \A r \in Slots :
    /\ (CallbackDone(r) /\ Did(r, "cookie")) =>
         ExpiresAt(req[r].events[1].value) = TrueExpiry(r)
    /\ (req[r].pc = "done"
          /\ req[r].handler \in {"authenticateToken", "optionalAuthentication"}
          /\ RefreshSucceeded(r) /\ req[r].result.success) =>
         ExpiresAt(req[r].result.token) = TrueExpiry(r)

\* -----------------------------------------------------------------
\* a call of the codec or of the orchestrator has returned
Called(r, fn) == req[r].pc = "done" /\ req[r].handler = fn
\* the token is one the orchestrator can work on: it verifies and has the
\* oauth property
Workable(c, t) == Verifies(c, t) /\ "oauth" \in DOMAIN c.payload

\* C17: verifyToken and refreshSessionToken never let an exception out: for a
\* missing, malformed, tampered or session-expired token, for a validly signed
\* token without the oauth property, and for a vendor call that fails, each
\* returns a result that says valid = false or success = false; every result
\* carries its boolean verdict.
C17_NeverThrow ==
  \A r \in Slots :
    /\ Called(r, "verifyToken") =>
         /\ ~Threw(req[r].result)
         /\ "valid" \in DOMAIN req[r].result
         /\ req[r].result.valid \in BOOLEAN
         /\ ~Verifies(req[r].cookie, req[r].startAt) =>
              (req[r].result.valid = FALSE /\ "error" \in DOMAIN req[r].result)
    /\ Called(r, "refreshSessionToken") =>
         /\ ~Threw(req[r].result)
         /\ "success" \in DOMAIN req[r].result
         /\ req[r].result.success \in BOOLEAN
         /\ (~Workable(req[r].cookie, req[r].startAt) \/ RefreshFailed(r)) =>
              (req[r].result.success = FALSE /\ "message" \in DOMAIN req[r].result)
    /\ GateDone(r) => (Did(r, "next") \/ Responded(r, 401))

\* refreshSessionToken called with a validly signed token that has no oauth
\* property
C17_Witness ==
  \E r \in Slots :
    /\ Called(r, "refreshSessionToken")
    /\ Verifies(req[r].cookie, req[r].startAt)
    /\ "oauth" \notin DOMAIN req[r].cookie.payload
    /\ req[r].result = [success |-> FALSE, message |-> "Token refresh failed"]

\* -----------------------------------------------------------------
\* the last call of generateToken returned a token
Issued == req[2].handler = "generateToken" /\ "token" \in DOMAIN req[2].result
IdentityFields == {"username", "displayName", "accountId", "avatarUrl"}

\* C18: verifyToken of the token generateToken(identity, tokens) returned,
\* called before the session lifetime of that token has elapsed, is valid, and
\* the decoded user has the identity's fields, the decoded oauth the access
\* token and the refresh token that were passed in (a property that was
\* undefined reads as undefined).
C18_RoundTrip ==
  \A r \in Requests :
    (Called(r, "verifyToken") /\ Issued /\ req[r].cookie = req[2].result.token
       /\ SessionLive(req[r].cookie, req[r].startAt)) =>
      /\ req[r].result.valid
      /\ \A f \in IdentityFields :
           JsGet(req[r].result.decoded.user, f) = JsGet(req[2].query.userData, f)
      /\ DOMAIN req[r].result.decoded.user \subseteq IdentityFields
      /\ JsGet(req[r].result.decoded.oauth, "access_token")
           = req[2].query.oauthTokens.access_token
      /\ JsGet(req[r].result.decoded.oauth, "refresh_token")
           = req[2].query.oauthTokens.refresh_token

\* a token verified some time after it was generated for an identity without
\* an avatar and a token tuple with a refresh token
C18_Witness ==
  \E r \in Requests :
    /\ Called(r, "verifyToken") /\ Issued /\ req[r].cookie = req[2].result.token
    /\ req[r].startAt > req[2].startAt
    /\ req[2].query.userData.avatarUrl = undefined
    /\ req[2].query.oauthTokens.refresh_token = <<"RT", 1>>
    /\ req[r].result.valid

\* what a client can make of credential c that differs from c
Forged(c) == Sendable(c) \ {c}

\* C19: a credential that differs from the issued credential the browser holds
\* (an edited payload under the old signature, a signature under another key,
\* a string that is no JWT) fails verifyToken, is refused by
\* refreshSessionToken, and is rejected by the gate with 401 without next()
\* and without an identity attached.
C19_ModifiedCredentialFails ==
  \A r \in Requests :
    (req[r].pc = "done" /\ IsJwt(jar) /\ req[r].cookie \in Forged(jar)) =>
      /\ req[r].handler = "verifyToken" => req[r].result.valid = FALSE
      /\ req[r].handler = "refreshSessionToken" =>
           (req[r].result.success = FALSE /\ req[r].calls = <<>>)
      /\ req[r].handler = "authenticateToken" =>
           /\ Responded(r, 401)
           /\ ~Did(r, "next")
           /\ req[r].ctx = NoContext
           /\ req[r].calls = <<>>

\* verifyToken called with the issued credential in which the account was
\* edited, within the session lifetime of the issued one
C19_Witness ==
  \E r \in Requests :
    /\ Called(r, "verifyToken")
    /\ IsJwt(jar) /\ Verifies(jar, req[r].startAt)
    /\ req[r].cookie = [jar EXCEPT !.payload.user.accountId = <<"u", 0>>]
    /\ req[r].result = [valid |-> FALSE, error |-> "invalid signature"]

\* -----------------------------------------------------------------
\* two gated requests in progress that carry the same credential, whose
\* vendor token was due for refresh when each arrived
SameDueCredential(a, b) ==
  /\ a # b
  /\ InGate(a) /\ InGate(b)
  /\ req[a].cookie = req[b].cookie
  /\ DueForRefresh(a) /\ DueForRefresh(b)
\* the request was answered with a credential issued for it when its own
\* vendor call returned
AnsweredWithOwnCredential(r) ==
  /\ req[r].result.success /\ req[r].result.refreshed
  /\ req[r].events[1] = SetCookie(req[r].result.token, nodeEnv)
  /\ Authentic(req[r].result.token)
  /\ req[r].result.token.payload.iat = req[r].endAt \div 1000
  /\ req[r].result.token.payload.oauth.access_token = req[r].answers[1].access_token

\* C11: refreshes are not queued, coalesced or deduplicated: of two requests
\* in progress with the same near-expiry credential each has made its own
\* call of refreshAccessToken (two calls in all) and waits for its own answer,
\* and each whose call succeeded is answered with a credential issued for it.
C11_NoCoalescing ==
  \A a, b \in Slots :
    SameDueCredential(a, b) =>
      /\ Len(req[a].calls) = 1 /\ Len(req[b].calls) = 1
      /\ req[a].calls[1].fn = "refreshAccessToken"
      /\ req[a].calls[1].arg = RefreshTokenOf(req[a].cookie)
      /\ req[a].pc = "refreshing" <=> req[a].answers = <<>>
      /\ (req[a].pc = "done" /\ RefreshSucceeded(a)) => AnsweredWithOwnCredential(a)

\* two requests with the same near-expiry credential whose processing
\* overlapped in time, both answered after a successful vendor call of their own
C11_Witness ==
  \E a, b \in Slots :
    /\ SameDueCredential(a, b)
    /\ GateDone(a) /\ GateDone(b)
    /\ req[a].startAt < req[b].endAt /\ req[b].startAt < req[a].endAt
    /\ req[a].calls[1].vendor /\ req[b].calls[1].vendor
    /\ AnsweredWithOwnCredential(a) /\ AnsweredWithOwnCredential(b)

\* -----------------------------------------------------------------
\* a middleware invocation (gate or optional) that has ended
MiddlewareDone(r) ==
  req[r].pc = "done" /\ req[r].handler \in {"authenticateToken", "optionalAuthentication"}
\* one step keeps the identity: a refresh that ends in this step issues a
\* credential with the identity of the inbound credential and leaves the
\* inbound credential as it was sent; and the identity of the browser's
\* credential changes only when the response of a callback is applied
KeepsIdentity ==
  /\ \A r \in Slots :
       (req[r].pc = "refreshing" /\ MiddlewareDone(r)' /\ req'[r].result.success) =>
         /\ req'[r].cookie = req[r].cookie
         /\ req'[r].result.refreshed
         /\ req'[r].result.token.payload.user = req[r].cookie.payload.user
         /\ Authentic(req'[r].result.token)
  /\ (IsJwt(jar) /\ IsJwt(jar') /\ \A r \in Slots : ~CallbackDone(r)) =>
       jar'.payload.user = jar.payload.user

\* C21: refresh never alters the identity or the inbound credential: every
\* credential a refresh issues carries the identity of the credential it was
\* made from, which through any sequence of refreshes is the identity stored
\* at login, and the inbound credential stays as it was while a new one is
\* issued.
C21_RefreshKeepsIdentity == [][KeepsIdentity]_vars

\* a refresh of a credential that was itself issued by a refresh, for the
\* identity without an avatar
C21_Witness ==
  \E r \in Slots :
    /\ MiddlewareDone(r) /\ RefreshSucceeded(r) /\ req[r].result.success
    /\ req[r].cookie.payload.oauth.access_token = <<"AT", 2>>
    /\ req[r].cookie.payload.user.username = <<"bob@example.com", 0>>
    /\ req[r].result.token.payload.user = req[r].cookie.payload.user
    /\ req[r].endAt > req[r].cookie.payload.iat * 1000

\* -----------------------------------------------------------------
\* the texts the mock shortcuts of the client produce
IsMockText(text) ==
  text[1] \in {"mock_auth_code_", "mock_access_token_", "mock_refresh_token_"}

\* C22: in production nothing is accepted for its mock_ prefix: every call of
\* exchangeCodeForToken, refreshAccessToken and getUserInfo goes to the vendor
\* and its result is the vendor's answer, so a callback writes the session
\* cookie only after the vendor accepted the code and returned an identity.
C22_NoMockInProduction ==
  nodeEnv = "production" =>
    \A r \in Slots :
      /\ \A i \in DOMAIN req[r].calls : req[r].calls[i].vendor
      /\ \A i \in DOMAIN req[r].answers :
           req[r].answers[i].success =>
             /\ "access_token" \in DOMAIN req[r].answers[i] =>
                  ~IsMockText(req[r].answers[i].access_token)
             /\ "user" \in DOMAIN req[r].answers[i] =>
                  req[r].answers[i].user \in Identities
      /\ (InCallback(r) /\ Did(r, "cookie")) =>
           /\ req[r].calls[1].vendor /\ req[r].calls[2].vendor
           /\ req[r].answers[1].success /\ req[r].answers[2].success
           /\ ~IsMockText(req[r].events[1].value.payload.oauth.access_token)

\* in production a callback with a mock_auth_code_ code went to the vendor,
\* which refused it
C22_Witness ==
  \E r \in Slots :
    /\ nodeEnv = "production"
    /\ CallbackDone(r)
    /\ startsWith(req[r].query.code, "mock_auth_code_")
    /\ Len(req[r].calls) = 1 /\ Len(req[r].answers) = 1
    /\ req[r].calls[1].vendor
    /\ ~req[r].answers[1].success
    /\ ~Did(r, "cookie")

\* -----------------------------------------------------------------
LogoutDone(r) == req[r].pc = "done" /\ req[r].handler = "logout"

\* C23: every call of logout clears the auth_token cookie, whatever the
\* request carried (no cookie, a string that is no session, a valid session):
\* the response is clearCookie followed by the redirect to /login, the
\* browser holds no cookie once it has applied it, and the handler calls
\* neither the vendor client nor the codec.
C23_LogoutAlwaysClears ==
  \A r \in Slots : LogoutDone(r) =>
    /\ req[r].events = <<ClearCookie, Redirect("/login", NoError)>>
    /\ ApplyCookies(req[r].events, jar) = NoCookie
    /\ req[r].calls = <<>> /\ req[r].answers = <<>>
    /\ req[r].result = <<>> /\ req[r].ctx = NoContext

\* logout of a browser that holds a session but sent a cookie that does not
\* verify
C23_Witness ==
  \E r \in Slots :
    /\ LogoutDone(r)
    /\ Verifies(jar, now)
    /\ ~Verifies(req[r].cookie, now)
    /\ Did(r, "clearCookie")

\* -----------------------------------------------------------------
\* the instant (in seconds) at which the session of a credential expires
SessionExpiry(c) == c.payload.exp

\* C28: a successful refresh issues a credential whose session lifetime is the
\* full 24 hours counted from the instant of the refresh, whatever the age of
\* the credential it replaces; a request that does not refresh hands back the
\* inbound credential and writes no cookie, so the session expiry stays. The
\* expiry therefore moves on with every refresh and is not tied to the login.
C28_RefreshRenewsLifetime ==
  \A r \in Slots : (MiddlewareDone(r) /\ req[r].result # <<>> /\ req[r].result.success) =>
    IF req[r].result.refreshed
    THEN /\ req[r].result.token.payload.iat = req[r].endAt \div 1000
         /\ SessionExpiry(req[r].result.token) = (req[r].endAt \div 1000) + 86400
         /\ SessionExpiry(req[r].result.token) >= SessionExpiry(req[r].cookie)
    ELSE /\ req[r].result.token = req[r].cookie
         /\ ~Did(r, "cookie")
         /\ ApplyCookies(req[r].events, req[r].cookie) = req[r].cookie

\* a refresh, some time after the inbound credential was issued, whose new
\* credential expires later than the inbound one would have
C28_Witness ==
  \E r \in Slots :
    /\ MiddlewareDone(r) /\ RefreshSucceeded(r) /\ req[r].result.success
    /\ req[r].endAt >= (req[r].cookie.payload.iat * 1000) + (55 * 60 * 1000)
    /\ SessionExpiry(req[r].result.token) > SessionExpiry(req[r].cookie)
    /\ Did(r, "cookie")

\* -----------------------------------------------------------------
\* the vendor honoured the refresh token the two requests share once: the
\* call of a succeeded, the call of b with the same token was refused
HonouredOnce(a, b) ==
  /\ req[a].calls[1].vendor /\ req[b].calls[1].vendor
  /\ req[a].calls[1].arg = req[b].calls[1].arg
  /\ RefreshSucceeded(a) /\ RefreshFailed(b)
\* the cookie the browser holds once it has applied first the response of
\* request x, then the response of request y
AfterBoth(x, y) == ApplyCookies(req[y].events, ApplyCookies(req[x].events, jar))

\* C27: two requests with the same near-expiry credential that are refreshed
\* concurrently never cost the session: when the vendor honours the shared
\* refresh token once, the cookie the browser holds after both responses,
\* applied in either order, is a credential that verifies.
C27_SessionSurvivesRace ==
  \A a, b \in Slots :
    (SameDueCredential(a, b) /\ GateDone(a) /\ GateDone(b) /\ HonouredOnce(a, b)) =>
      /\ Verifies(AfterBoth(a, b), now)
      /\ Verifies(AfterBoth(b, a), now)

\* -----------------------------------------------------------------
\* a gated request that carries the copied credential after the browser had
\* given it up (logout, or a refresh that replaced it), sent while the
\* session lifetime of the copy has not elapsed
ReplayedInLifetime(r) ==
  /\ GateDone(r)
  /\ req[2].pc = "replayed"
  /\ req[r].cookie = req[2].cookie
  /\ req[2].local.held # req[2].cookie
  /\ SessionLive(req[r].cookie, req[r].startAt)
\* the gate let the request through with the identity of its credential
Passed(r) ==
  /\ Did(r, "next")
  /\ ~Did(r, "status")
  /\ req[r].ctx # NoContext
  /\ req[r].ctx.user = req[r].cookie.payload.user

GetDone(q) == q.pc = "done" /\ q.handler = "get"
\* a GET that asked the Jira API and returned its answer
Fetched(q) == GetDone(q) /\ Len(q.calls) = 1 /\ ~Threw(q.result)
\* a GET answered without a request to the Jira API
FromCache(q) == GetDone(q) /\ q.calls = <<>> /\ ~Threw(q.result)
SameQuestion(p, q) ==
  p.query.endpoint = q.query.endpoint /\ p.query.params = q.query.params
\* slot a holds a completed caching GET whose TTL runs and that no clear
\* followed; slot b begins a caching GET for the same endpoint and parameters
LaterGet(a, b) ==
  /\ a # b
  /\ Fetched(req[a])
  /\ req[a].query.useCache
  /\ ~req[a].local.cleared
  /\ now < req[a].endAt + req[a].query.cacheTTL
  /\ req[b].pc = "idle"
  /\ req'[b].handler = "get"
  /\ req'[b].query.useCache
  /\ SameQuestion(req[a], req'[b])

\* C24 (as stated): once a caching GET has completed successfully, a later
\* caching GET for the same endpoint and parameters, before the TTL elapses
\* and before any clear, is answered from the cache without asking Jira.
C24_ServedFromCache ==
  [][\A a, b \in Slots : LaterGet(a, b) => FromCache(req'[b])]_vars

\* C24 (amended): the same, for a GET that completed with a non-empty
\* (truthy) response body; an empty body is never stored.
C24_ServedFromCacheIfBody ==
  [][\A a, b \in Slots :
       LaterGet(a, b) /\ truthy(req[a].result.value) => FromCache(req'[b])]_vars

C24_Witness ==
  \E a, b \in Slots :
    /\ a # b
    /\ Fetched(req[a]) /\ req[a].query.useCache /\ ~req[a].local.cleared
    /\ truthy(req[a].result.value)
    /\ FromCache(req[b]) /\ req[b].query.useCache
    /\ SameQuestion(req[a], req[b])
    /\ req[b].endAt > req[a].endAt
    /\ req[b].endAt < req[a].endAt + req[a].query.cacheTTL

ClearDone(q) == q.pc = "done" /\ q.handler \in {"clearCache", "clearByPattern"}
\* the keys of the store that contain the pattern
Containing(c, pattern) ==
  {k \in DOMAIN c : pattern # <<>> /\ includes(k, pattern)}

\* C25: clearCache(pattern) and clearByPattern(pattern) remove exactly the
\* entries whose key contains the pattern and leave the others in place,
\* clearByPattern returning the number removed; an empty pattern removes
\* nothing.
C25_ClearRemovesMatching ==
  [][\A r \in Slots :
       req[r].pc = "idle" /\ ClearDone(req'[r]) =>
         LET gone == Containing(cache, req'[r].query.pattern)
         IN /\ cache' = [k \in DOMAIN cache \ gone |-> cache[k]]
            /\ req'[r].handler = "clearByPattern"
                 => req'[r].result.value = Cardinality(gone)]_vars

\* C29: a response fetched with one user's access token is never returned
\* by get to a request made with another user's access token.
C29_CacheIsolatedPerUser ==
  \A r \in Slots :
    GetDone(req[r]) /\ ~Threw(req[r].result) /\ truthy(req[r].result.value)
      => req[r].result.value.visibleTo = req[r].query.accessToken


\* =================================================================
\* Paged issue search
\* =================================================================
Searching(q) == q.handler = "searchIssues" /\ q.pc # "idle"

\* C26: searchIssues asks for every page once, each POST starting where the
\* page before it ended and beyond it, so that the search ends; when it
\* returns, it has sent one POST per page and returns the issues of all
\* pages in page order.
C26_OnePostPerPage ==
  \A r \in Slots :
    Searching(req[r]) =>
      /\ req[r].calls[1].startAt = req[r].query.startAt
      /\ \A i \in 2..Len(req[r].calls) :
           /\ req[r].calls[i].startAt
                = req[r].answers[i - 1].startAt + req[r].answers[i - 1].maxResults
           /\ req[r].calls[i].startAt > req[r].calls[i - 1].startAt
      /\ req[r].pc = "done" /\ ~Threw(req[r].result) =>
           /\ Len(req[r].calls) = Len(req[r].answers)
           /\ req[r].result.value.issues = combineIssues(req[r].answers)

====
